---- MODULE Spec2Model ----
(***************************************************************************)
(* A model of keshavghimire/p2pchat: the peer-to-peer node                 *)
(* (src/p2p_chat.py), the length-prefixed framing (src/utils.py) and the   *)
(* presence ("rendezvous") service and its client                          *)
(* (src/presence_server.py, src/presence_client.py).                       *)
(*                                                                         *)
(* The specifications that share the module:                               *)
(*   Spec       the nodes: registries, join handshake, broadcast,          *)
(*              liveness monitor, disconnect;                              *)
(*   SpecFrame  send_message / receive_message on one byte stream;         *)
(*   SpecRdv    the presence server, its sweep and its clients;            *)
(*   SpecLock   the threads of a node and of the service and their locks.  *)
(* Each keeps the variables of the others at their initial values.         *)
(***************************************************************************)
EXTENDS Integers, Sequences, FiniteSets, Bags, TLC

VARIABLES
    now,        \* the value time.time() returns
    peers,      \* peers[n]: P2PChat.peers of node n, username -> record
    alive,      \* alive[n]: the process of node n runs (FALSE once killed)
    connected,  \* connected[n]: P2PChat.connected
    sockOpen,   \* sockOpen[n]: n's listening socket accepts connections
    ui,         \* ui[n]: what n's UI thread is doing
    jc,         \* jc[j]: the connection of j's join_network call
    bcQueue,    \* bcQueue[n]: broadcast_message's peers_copy still to send to
    dcQueue,    \* dcQueue[n]: disconnect's peers_copy still to send to
    hbPc,       \* hbPc[n]: position of n's _send_heartbeat thread
    hbQueue,    \* hbQueue[n]: stale entries of the cycle's peers_copy still to probe
    hbCur,      \* hbCur[n]: the probe whose result is about to be written
    net,        \* one-shot messages sent and not yet handled (a bag)
    emitted,    \* status_callback calls made by the last step
    returned,   \* what the join_network call that ended in the last step returned
    budget,     \* how many joins, broadcasts, crashes, disconnects have started
    acceptPc,   \* acceptPc[n]: position of n's _listen_for_connections thread
    logged,     \* what the last step gave the display: send failures, messages
    skipped,    \* the registry writes the last step left out: the peer was absent
    departed,   \* departed[n]: the usernames whose leave node n has handled
    \* utils.py, one connection
    wire,           \* bytes sent and not yet read
    wclosed,        \* the sender has closed the connection
    sent,           \* the messages send_message wrote, in order
    rpc,            \* position of receive_message: idle, prefix, body
    sock_timeout,   \* the socket's timeout: <<>> is None (blocking), <<t>> is t s
    message_length, \* the declared length of the message being read
    bytes_received, \* body bytes read so far
    chunks,         \* the body bytes read so far, joined
    split,          \* the body being read has taken more than one recv
    results,        \* what the receive_message calls returned, in order
    wreset,         \* the receiving end has reset the connection
    calls,          \* what the send_message calls did and gave their caller, in order
    \* presence_server.py and presence_client.py
    clock,          \* time.time() at the rendezvous service
    online_users,   \* username -> address, port, last_seen
    running,        \* the service's running flag
    cleanupPc,      \* position of _cleanup_stale_users: sleep, sweep, stopped
    sleep_until,    \* when its time.sleep(30) ends
    current_time,   \* the clock as the last sweep read it
    registered,     \* registered[c]: client c's registered flag
    hb_running,     \* hb_running[c]: client c's running flag (_send_heartbeats)
    heartbeat_threads, \* heartbeat_threads[c]: c's _send_heartbeats threads alive
    rq,             \* rq[c]: client c's register or query in progress
    rnet,           \* heartbeats and unregisters sent and not yet handled
    answer,         \* what the client call that ended in the last step returned
    removed,        \* the users the last step's sweep removed
    ignored,        \* the heartbeat the last step found no registered user for
    used,           \* how many client calls and stops have started
    \* the locks of the node and of the service
    lock,           \* lock[l]: the thread that holds lock l, or "free"
    at,             \* at[t]: the statement thread t runs next
    \* file_transfer.py, one file
    file_data,          \* the chunks f.read gives of the file being sent
    fpc,                \* position of send_file: idle, read, sent
    send_pos,           \* the _send_chunk calls made so far
    chunk_threads,      \* chunk_threads[i]: position of the handler of chunk i
    incoming_transfers, \* FileTransfer.incoming_transfers of the receiver
    saved_files         \* what the receiver wrote to its downloads folder

nodeVars == <<now, peers, alive, connected, sockOpen, ui, jc, bcQueue, dcQueue,
              hbPc, hbQueue, hbCur, net, emitted, returned, budget,
              acceptPc, logged, skipped, departed>>

frameVars == <<wire, wclosed, sent, rpc, sock_timeout, message_length,
               bytes_received, chunks, split, results, wreset, calls>>

rdvVars == <<clock, online_users, running, cleanupPc, sleep_until, current_time,
             registered, hb_running, heartbeat_threads, rq, rnet, answer, removed,
             ignored, used>>

lockVars == <<lock, at>>

fileVars == <<file_data, fpc, send_pos, chunk_threads, incoming_transfers, saved_files>>

vars == <<nodeVars, frameVars, rdvVars, lockVars, fileVars>>

-----------------------------------------------------------------------------
(* Bounds of the model. *)
MaxJoins == 2       \* join_network calls, all nodes together
MaxBroadcasts == 1  \* broadcast_message calls, all nodes together
MaxCrashes == 1     \* nodes killed without a leave
MaxDisconnects == 1 \* disconnect() calls
MaxNet == 1         \* one-shot messages in flight at once
MaxOps == 3         \* joins, broadcasts, crashes, disconnects, faults, others together
MaxCycles == 2      \* liveness monitor cycles that probe, all nodes together
MaxSends == 2       \* send_message calls on the connection
MaxRecvs == 2       \* receive_message calls on the connection
MaxShortSpan == 8   \* bytes at each end of a body where a recv may come short
MaxRegisters == 2   \* register() calls, all clients together
MaxQueries == 1     \* get_online_users() calls, all clients together
MaxBeats == 1       \* heartbeats sent to the rendezvous service
MaxUnregisters == 1 \* unregister() calls
MaxStops == 1       \* stop() calls of the rendezvous service
MaxCalls == 4       \* client calls, heartbeats and stops together
MaxFaults == 1      \* sends that are reset, connects and receives that time out
MaxOthers == 1      \* file chunks and messages of no known type sent
MaxChunks == 2      \* full chunks of the file sent with send_file

(* The readings of time.time() the model tells apart, in seconds. *)
ClockReadings == {0, 10, 20}

(* The readings of time.time() at the rendezvous service the model tells  *)
(* apart.                                                                  *)
RdvClockReadings == {0, 30, 60, 61, 90}

(* Program constants. *)
StaleAfter == 15         \* the liveness monitor's staleness threshold, seconds
MaxMessage == 104857600  \* receive_message's limit on a declared length, bytes
ChunkSize == 4096        \* the most one recv of the body loop asks for
PrefixLen == 4           \* bytes of the length prefix
RecvTimeout == 10        \* receive_message's socket timeout, seconds
SweepInterval == 30      \* the sleep of _cleanup_stale_users, seconds
StaleThreshold == 60     \* its stale_threshold, seconds
HeartbeatEvery == 20     \* the sleep of _send_heartbeats, seconds

(* The nodes: username, address and listening port of each. *)
Host == [alice |-> "10.0.0.1", bob |-> "10.0.0.2", carol |-> "10.0.0.3"]
ListenPort == [alice |-> 9001, bob |-> 9002, carol |-> 9003]
Nodes == DOMAIN Host
Names == Nodes

(* The nodes whose address users dial in join_network. *)
Seeds == {"alice"}

(* The nodes whose process is started. *)
Started == {"alice", "bob"}

-----------------------------------------------------------------------------
(* Dictionaries: functions whose domain is the set of keys. *)
Put(d, k, v) == [x \in DOMAIN d \cup {k} |-> IF x = k THEN v ELSE d[x]]
Del(d, k) == [x \in DOMAIN d \ {k} |-> d[x]]
EmptyDict == [x \in {} |-> 0]

(* A faulty record: it stores the epoch in place of the clock's reading.   *)
OnlineRecordAtEpoch(address, port, t) ==
    [address |-> address, port |-> port, last_seen |-> 0, status |-> "online"]

(* The record the join handler, join_network and the peer_list merge store. *)
OnlineRecord(address, port, t) ==
    [address |-> address, port |-> port, last_seen |-> t, status |-> "online"]

(* The node a connect((address, port)) reaches, if it is listening. *)
Listener(address, port) ==
    {n \in Nodes : Host[n] = address /\ ListenPort[n] = port /\ alive[n] /\ sockOpen[n]}

NoConn == [to |-> "", stage |-> "none", jside |-> "idle", list |-> {}]

Msg(to, type, username) == [to |-> to, type |-> type, username |-> username]
Send(m) == net (+) SetToBag({m})
InFlight == BagCardinality(net)

(* Whether one more operation of a kind, started `count` times out of       *)
(* `max`, may start.                                                       *)
MayStart(count, max) ==
    /\ count < max
    /\ budget.joins + budget.bcasts + budget.crashes + budget.discs + budget.faults
          + budget.others < MaxOps

(* A call of node n's status_callback(u, status), made by the code at     *)
(* `site`: the join handler, the heartbeat handler, join_network or the    *)
(* liveness monitor.                                                       *)
Event(n, u, status, site) ==
    [at |-> n, username |-> u, status |-> status, site |-> site]

(* What the caller of send_message sees of a sendall that raised: the      *)
(* except clause prints the error and the function returns as it does      *)
(* after a success.                                                        *)
SendReports == FALSE

(* The results of a connect to the listeners `target` followed by          *)
(* send_message: "refused" when nothing listens, "timeout" when a connect  *)
(* with a timeout set gets no answer in time, "reset" when the connect     *)
(* succeeded and sendall raised, "sent" when the bytes were written.       *)
Results(target, timed) ==
    IF target = {} THEN {"refused"}
    ELSE {"sent"} \cup (IF MayStart(budget.faults, MaxFaults)
                        THEN {"reset"} \cup (IF timed THEN {"timeout"} ELSE {})
                        ELSE {})

(* A faulty caller: a sendall that raised reaches its except clause.       *)
RanAsSentOnly(result) == result = "sent"

(* Whether the caller of a connect and send_message goes on as after a     *)
(* success.                                                                *)
RanAsSent(result) == result = "sent" \/ (result = "reset" /\ ~SendReports)

(* The budget after a connect and send with that result.                   *)
Spent(result) ==
    IF result \in {"reset", "timeout"} THEN [budget EXCEPT !.faults = @ + 1] ELSE budget

(* broadcast_message's "Error sending message to u" notification.          *)
SendError(n, u) == [at |-> n, peer |-> u]

(* A message that lacks a field the handler indexes, and the ways it can:  *)
(* no type; a join without username or without port; a heartbeat or a      *)
(* leave without username.                                                 *)
Invalid == "invalid"
InvalidKinds == {"no_type", "join_no_username", "join_no_port",
                 "heartbeat_no_username", "leave_no_username"}

(* What the handler of node n hands on of a message of that type from u:   *)
(* _notify_ui for a chat, a leave and an unknown type, file_chunk_callback *)
(* for a file chunk.                                                       *)
Shown(n, type, u) == [at |-> n, type |-> type, username |-> u]

(* A write to username u's entry that the code at `site` left out at node  *)
(* n because the registry held no such entry.                              *)
Skip(n, u, site) == [at |-> n, username |-> u, site |-> site]

(* The probe a monitor thread has under way. "seen" is the last_seen the   *)
(* registry held for the peer when the connect began (-1 with no entry);   *)
(* the code keeps no such value, the properties compare against it.        *)
Probe(u, old_status, result, seen) ==
    [peer |-> u, old_status |-> old_status, result |-> result, seen |-> seen]
NoProbe == Probe("", "", "none", -1)

(* A return of join_network by node j: its value, and what the call's      *)
(* first receive_message had given ("refused": the connect raised).        *)
Return(j, value, reply) == [node |-> j, value |-> value, reply |-> reply]
NoReturn == Return("", "none", "none")

-----------------------------------------------------------------------------
(* The started nodes after construction: empty registries, the accept and  *)
(* monitor threads running. A node that is not started is a dead address.  *)
InitNodes(started) ==
    /\ now = 0
    /\ peers = [n \in Nodes |-> EmptyDict]
    /\ alive = [n \in Nodes |-> n \in started]
    /\ connected = [n \in Nodes |-> n \in started]
    /\ sockOpen = [n \in Nodes |-> n \in started]
    /\ ui = [n \in Nodes |-> IF n \in started THEN "idle" ELSE "closed"]
    /\ jc = [n \in Nodes |-> NoConn]
    /\ bcQueue = [n \in Nodes |-> EmptyDict]
    /\ dcQueue = [n \in Nodes |-> EmptyDict]
    /\ hbPc = [n \in Nodes |-> IF n \in started THEN "sleep" ELSE "stopped"]
    /\ hbQueue = [n \in Nodes |-> EmptyDict]
    /\ hbCur = [n \in Nodes |-> NoProbe]
    /\ net = EmptyBag
    /\ emitted = <<>>
    /\ returned = NoReturn
    /\ budget = [joins |-> 0, bcasts |-> 0, crashes |-> 0, discs |-> 0, cycles |-> 0,
                 faults |-> 0, others |-> 0]
    /\ acceptPc = [n \in Nodes |-> IF n \in started THEN "accept" ELSE "stopped"]
    /\ logged = <<>>
    /\ skipped = <<>>
    /\ departed = [n \in Nodes |-> {}]

InitNode == InitNodes(Started)

(* time.time() is read again later: the clock has moved on, or not. *)
Tick ==
    /\ now' \in ClockReadings
    /\ now' > now
    /\ \A t \in ClockReadings : ~(now < t /\ t < now')
    /\ emitted' = <<>>
    /\ returned' = NoReturn
    /\ UNCHANGED <<peers, alive, connected, sockOpen, ui, jc, bcQueue, dcQueue,
                   hbPc, hbQueue, hbCur, net, budget>>
    /\ logged' = <<>> /\ skipped' = <<>>
    /\ UNCHANGED <<acceptPc, departed>>
    /\ UNCHANGED <<frameVars, rdvVars, lockVars, fileVars>>

-----------------------------------------------------------------------------
(* join_network, the joiner's side, and the acceptor's handler thread of   *)
(* the same connection (_handle_client, _handle_message).                  *)

(* join_network up to the first receive_message: connect and send join.    *)
(* A refused connect raises, and the except clause returns False.          *)
JoinStart(j, a) ==
    /\ alive[j] /\ ui[j] = "idle" /\ jc[j].stage = "none"
    /\ MayStart(budget.joins, MaxJoins)
    /\ budget' = [budget EXCEPT !.joins = @ + 1]
    /\ IF Listener(Host[a], ListenPort[a]) # {}
       THEN /\ jc' = [jc EXCEPT ![j] = [to |-> a, stage |-> "join_sent",
                                        jside |-> "wait_welcome", list |-> {}]]
            /\ ui' = [ui EXCEPT ![j] = "join"]
            /\ returned' = NoReturn
       ELSE /\ returned' = Return(j, "false", "refused")
            /\ UNCHANGED <<jc, ui>>
    /\ emitted' = <<>>
    /\ UNCHANGED <<now, peers, alive, connected, sockOpen, bcQueue, dcQueue,
                   hbPc, hbQueue, hbCur, net>>
    /\ logged' = <<>> /\ skipped' = <<>>
    /\ UNCHANGED <<acceptPc, departed>>
    /\ UNCHANGED <<frameVars, rdvVars, lockVars, fileVars>>

(* A faulty join handler: it stores no usable listening port.              *)
JoinRecordNoPort(src, port, t) == [OnlineRecord(src, port, t) EXCEPT !.port = 0]

(* The record the join handler stores for a joiner seen at source address  *)
(* src announcing listening port port.                                     *)
JoinRecord(src, port, t) == OnlineRecord(src, port, t)

(* _handle_message, type join, the part under the lock.                    *)
HandleJoin(a, j) ==
    /\ alive[a] /\ connected[a]
    /\ jc[j].to = a /\ jc[j].stage = "join_sent"
    /\ peers' = [peers EXCEPT ![a] = Put(@, j, JoinRecord(Host[j], ListenPort[j], now))]
    /\ jc' = [jc EXCEPT ![j].stage = "upserted"]
    /\ emitted' = <<>>
    /\ returned' = NoReturn
    /\ UNCHANGED <<now, alive, connected, sockOpen, ui, bcQueue, dcQueue,
                   hbPc, hbQueue, hbCur, net, budget>>
    /\ logged' = <<>> /\ skipped' = <<>>
    /\ UNCHANGED <<acceptPc, departed>>
    /\ UNCHANGED <<frameVars, rdvVars, lockVars, fileVars>>

(* _handle_message, type join, after the lock: send welcome, notify, call  *)
(* the status callback. send_message swallows a failed send.               *)
SendWelcome(a, j) ==
    /\ alive[a]
    /\ jc[j].to = a /\ jc[j].stage = "upserted"
    /\ jc' = [jc EXCEPT ![j] = IF @.jside = "wait_welcome"
                               THEN [@ EXCEPT !.stage = "welcome_sent"]
                               ELSE NoConn]
    /\ emitted' = <<Event(a, j, "online", "join")>>
    /\ returned' = NoReturn
    /\ UNCHANGED <<now, peers, alive, connected, sockOpen, ui, bcQueue, dcQueue,
                   hbPc, hbQueue, hbCur, net, budget>>
    /\ logged' = <<>> /\ skipped' = <<>>
    /\ UNCHANGED <<acceptPc, departed>>
    /\ UNCHANGED <<frameVars, rdvVars, lockVars, fileVars>>

(* _handle_message, type join, for a join that a process outside the nodes *)
(* followed here sends under username u (the user started again            *)
(* elsewhere): it arrives from address src and announces port. The store   *)
(* under the lock, the welcome and the status callback.                    *)
HandleJoinFrom(a, u, src, port) ==
    /\ alive[a] /\ connected[a]
    /\ u # a
    /\ MayStart(budget.joins, MaxJoins)
    /\ budget' = [budget EXCEPT !.joins = @ + 1]
    /\ peers' = [peers EXCEPT ![a] = Put(@, u, JoinRecord(src, port, now))]
    /\ emitted' = <<Event(a, u, "online", "join")>>
    /\ returned' = NoReturn
    /\ logged' = <<>> /\ skipped' = <<>>
    /\ UNCHANGED <<now, alive, connected, sockOpen, ui, jc, bcQueue, dcQueue,
                   hbPc, hbQueue, hbCur, net, acceptPc, departed>>
    /\ UNCHANGED <<frameVars, rdvVars, lockVars, fileVars>>

(* join_network, the welcome branch: store the acceptor under the username *)
(* and port of the welcome and the host that was dialled, then send        *)
(* request_peers on the same connection.                                   *)
JoinRecvWelcome(j) ==
    /\ alive[j] /\ jc[j].jside = "wait_welcome" /\ jc[j].stage = "welcome_sent"
    /\ LET a == jc[j].to IN
       peers' = [peers EXCEPT ![j] = Put(@, a, OnlineRecord(Host[a], ListenPort[a], now))]
    /\ jc' = [jc EXCEPT ![j].stage = "req_sent", ![j].jside = "wait_list"]
    /\ emitted' = <<>>
    /\ returned' = NoReturn
    /\ UNCHANGED <<now, alive, connected, sockOpen, ui, bcQueue, dcQueue,
                   hbPc, hbQueue, hbCur, net, budget>>
    /\ logged' = <<>> /\ skipped' = <<>>
    /\ UNCHANGED <<acceptPc, departed>>
    /\ UNCHANGED <<frameVars, rdvVars, lockVars, fileVars>>

(* What join_network returns when the first receive_message gave no        *)
(* welcome: the else branch notifies and falls through to return True.     *)
NoWelcomeResult == "true"

(* join_network, the else branch of the welcome test, on a connection to a *)
(* node: receive_message gave None because the acceptor closed the         *)
(* connection, or because nothing arrived within its timeout of 10 s, a    *)
(* fault of the run like a connect that times out.                         *)
JoinNoWelcome(j) ==
    /\ alive[j] /\ jc[j].jside = "wait_welcome"
    /\ jc[j].stage = "dead" \/ MayStart(budget.faults, MaxFaults)
    /\ budget' = IF jc[j].stage = "dead" THEN budget
                 ELSE [budget EXCEPT !.faults = @ + 1]
    /\ jc' = [jc EXCEPT ![j] = IF @.stage \in {"join_sent", "upserted"}
                               THEN [@ EXCEPT !.jside = "idle"]
                               ELSE NoConn]
    /\ ui' = [ui EXCEPT ![j] = "idle"]
    /\ returned' = Return(j, NoWelcomeResult,
                           IF jc[j].stage = "dead" THEN "closed" ELSE "timeout")
    /\ emitted' = <<>>
    /\ UNCHANGED <<now, peers, alive, connected, sockOpen, bcQueue, dcQueue,
                   hbPc, hbQueue, hbCur, net>>
    /\ logged' = <<>> /\ skipped' = <<>>
    /\ UNCHANGED <<acceptPc, departed>>
    /\ UNCHANGED <<frameVars, rdvVars, lockVars, fileVars>>

(* join_network to an endpoint that is no node (the presence server, say): *)
(* the connect succeeds, and the reply is None or a message of another     *)
(* type. The same else branch.                                             *)
JoinForeign(j, reply) ==
    /\ alive[j] /\ ui[j] = "idle" /\ jc[j].stage = "none"
    /\ MayStart(budget.joins, MaxJoins)
    /\ budget' = [budget EXCEPT !.joins = @ + 1]
    /\ returned' = Return(j, NoWelcomeResult, reply)
    /\ emitted' = <<>>
    /\ UNCHANGED <<now, peers, alive, connected, sockOpen, ui, jc, bcQueue, dcQueue,
                   hbPc, hbQueue, hbCur, net>>
    /\ logged' = <<>> /\ skipped' = <<>>
    /\ UNCHANGED <<acceptPc, departed>>
    /\ UNCHANGED <<frameVars, rdvVars, lockVars, fileVars>>

(* The peers list of the request_peers handler: one triple per entry of    *)
(* the registry r.                                                         *)
(* A faulty request_peers handler: it lists the online entries only.      *)
PeersListOnline(r) ==
    {[username |-> u, address |-> r[u].address, port |-> r[u].port] :
        u \in {x \in DOMAIN r : r[x].status = "online"}}

(* The peers_list of the request_peers handler for registry r.             *)
PeersList(r) ==
    {[username |-> u, address |-> r[u].address, port |-> r[u].port] : u \in DOMAIN r}

(* _handle_message, type request_peers: copy under the lock, then send.    *)
HandleRequestPeers(a, j) ==
    /\ alive[a] /\ connected[a]
    /\ jc[j].to = a /\ jc[j].stage = "req_sent"
    /\ jc' = [jc EXCEPT ![j] = IF @.jside = "wait_list"
                               THEN [@ EXCEPT !.stage = "list_sent",
                                              !.list = PeersList(peers[a])]
                               ELSE NoConn]
    /\ emitted' = <<>>
    /\ returned' = NoReturn
    /\ UNCHANGED <<now, peers, alive, connected, sockOpen, ui, bcQueue, dcQueue,
                   hbPc, hbQueue, hbCur, net, budget>>
    /\ logged' = <<>> /\ skipped' = <<>>
    /\ UNCHANGED <<acceptPc, departed>>
    /\ UNCHANGED <<frameVars, rdvVars, lockVars, fileVars>>

(* A faulty merge: it stores the triple under the node's own username too. *)
MergeAll(r, list, self, t) ==
    [u \in DOMAIN r \cup {p.username : p \in list} |->
        IF \E x \in list : x.username = u
        THEN LET p == CHOOSE x \in list : x.username = u
             IN OnlineRecord(p.address, p.port, t)
        ELSE r[u]]

(* The registry r after join_network's merge of a peer_list, by node self  *)
(* at time t: every triple but the one under self's username.              *)
RECURSIVE Merge(_, _, _, _)
Merge(r, list, self, t) ==
    IF list = {} THEN r
    ELSE LET p == CHOOSE x \in list : TRUE
             rest == Merge(r, list \ {p}, self, t)
         IN IF p.username # self
            THEN Put(rest, p.username, OnlineRecord(p.address, p.port, t))
            ELSE rest

(* join_network, the peer_list branch: merge, call the status callback for *)
(* the acceptor, close, return True.                                       *)
JoinRecvPeerList(j) ==
    /\ alive[j] /\ jc[j].jside = "wait_list" /\ jc[j].stage = "list_sent"
    /\ peers' = [peers EXCEPT ![j] = Merge(@, jc[j].list, j, now)]
    /\ jc' = [jc EXCEPT ![j] = NoConn]
    /\ ui' = [ui EXCEPT ![j] = "idle"]
    /\ returned' = Return(j, "true", "welcome")
    /\ emitted' = <<Event(j, jc[j].to, "online", "join_network")>>
    /\ UNCHANGED <<now, alive, connected, sockOpen, bcQueue, dcQueue,
                   hbPc, hbQueue, hbCur, net, budget>>
    /\ logged' = <<>> /\ skipped' = <<>>
    /\ UNCHANGED <<acceptPc, departed>>
    /\ UNCHANGED <<frameVars, rdvVars, lockVars, fileVars>>

(* join_network when the second receive_message gives no peer_list (the    *)
(* connection was closed, or the receive timed out, a fault): close,       *)
(* return True.                                                            *)
JoinNoPeerList(j) ==
    /\ alive[j] /\ jc[j].jside = "wait_list"
    /\ jc[j].stage = "dead" \/ MayStart(budget.faults, MaxFaults)
    /\ budget' = IF jc[j].stage = "dead" THEN budget
                 ELSE [budget EXCEPT !.faults = @ + 1]
    /\ jc' = [jc EXCEPT ![j] = IF @.stage = "req_sent"
                               THEN [@ EXCEPT !.jside = "idle"]
                               ELSE NoConn]
    /\ ui' = [ui EXCEPT ![j] = "idle"]
    /\ returned' = Return(j, "true", "welcome")
    /\ emitted' = <<>>
    /\ UNCHANGED <<now, peers, alive, connected, sockOpen, bcQueue, dcQueue,
                   hbPc, hbQueue, hbCur, net>>
    /\ logged' = <<>> /\ skipped' = <<>>
    /\ UNCHANGED <<acceptPc, departed>>
    /\ UNCHANGED <<frameVars, rdvVars, lockVars, fileVars>>

(* _handle_client: the loop ends once connected is False, and the finally  *)
(* clause closes the connection with its message unread.                   *)
HandlerExit(a, j) ==
    /\ alive[a] /\ ~connected[a]
    /\ jc[j].to = a /\ jc[j].stage \in {"join_sent", "req_sent"}
    /\ jc' = [jc EXCEPT ![j] = IF @.jside = "idle" THEN NoConn
                               ELSE [@ EXCEPT !.stage = "dead"]]
    /\ emitted' = <<>>
    /\ returned' = NoReturn
    /\ UNCHANGED <<now, peers, alive, connected, sockOpen, ui, bcQueue, dcQueue,
                   hbPc, hbQueue, hbCur, net, budget>>
    /\ logged' = <<>> /\ skipped' = <<>>
    /\ UNCHANGED <<acceptPc, departed>>
    /\ UNCHANGED <<frameVars, rdvVars, lockVars, fileVars>>

-----------------------------------------------------------------------------
(* One-shot connections: chat, heartbeat and leave each travel on a        *)
(* connection of their own and are handled on a thread of their own.       *)

(* A faulty heartbeat handler: it refreshes last_seen and leaves status.   *)
OnHeartbeatKeepsStatus(r, u, t) ==
    IF u \in DOMAIN r THEN [r EXCEPT ![u].last_seen = t] ELSE r

(* A faulty heartbeat handler: it stores a sender it does not know.        *)
OnHeartbeatCreates(r, u, t) ==
    IF u \in DOMAIN r
    THEN [r EXCEPT ![u].last_seen = t, ![u].status = "online"]
    ELSE Put(r, u, OnlineRecord(Host[u], ListenPort[u], t))

(* The registry r after the heartbeat handler ran for username u at time t *)
(* (unknown senders are ignored).                                          *)
OnHeartbeat(r, u, t) ==
    IF u \in DOMAIN r
    THEN [r EXCEPT ![u].last_seen = t, ![u].status = "online"]
    ELSE r

(* The status_callback calls of the heartbeat handler at node n.           *)
HeartbeatEvents(n, r, u) ==
    IF u \in DOMAIN r /\ r[u].status # "online"
    THEN <<Event(n, u, "online", "heartbeat")>>
    ELSE <<>>

(* A faulty leave handler: it keeps the entry and marks it offline.        *)
OnLeaveMarksOffline(r, u) ==
    IF u \in DOMAIN r THEN [r EXCEPT ![u].status = "offline"] ELSE r

(* The registry r after the leave handler ran for username u.              *)
OnLeave(r, u) == IF u \in DOMAIN r THEN Del(r, u) ELSE r

(* A faulty handler: a chat, file chunk or unknown type marks its sender     *)
(* online.                                                                 *)
OnOtherMarksOnline(r, u) ==
    IF u \in DOMAIN r THEN [r EXCEPT ![u].status = "online"] ELSE r

(* The registry r after the handler ran for a chat, a file chunk or a type *)
(* it does not know, from username u: these branches do not touch it.      *)
OnOther(r, u) == r

(* _handle_client and _handle_message for one chat, heartbeat, leave, file  *)
(* chunk or message of a type it does not know.                            *)
HandleMessage(n, m) ==
    /\ alive[n] /\ connected[n]
    /\ BagIn(m, net) /\ m.to = n
    /\ m.type # Invalid
    /\ net' = net (-) SetToBag({m})
    /\ peers' = [peers EXCEPT ![n] =
                    CASE m.type = "heartbeat" -> OnHeartbeat(@, m.username, now)
                      [] m.type = "leave" -> OnLeave(@, m.username)
                      [] OTHER -> OnOther(@, m.username)]
    /\ emitted' = IF m.type = "heartbeat" THEN HeartbeatEvents(n, peers[n], m.username)
                  ELSE <<>>
    /\ returned' = NoReturn
    /\ skipped' = IF m.type \in {"heartbeat", "leave"} /\ m.username \notin DOMAIN peers[n]
                  THEN <<Skip(n, m.username, m.type)>> ELSE <<>>
    /\ logged' = IF m.type = "heartbeat" THEN <<>>
                 ELSE <<Shown(n, m.type, m.username)>>
    /\ UNCHANGED <<now, alive, connected, sockOpen, ui, jc, bcQueue, dcQueue,
                   hbPc, hbQueue, hbCur, budget, acceptPc>>
    /\ departed' = IF m.type = "leave" THEN [departed EXCEPT ![n] = @ \cup {m.username}]
                   ELSE departed
    /\ UNCHANGED <<frameVars, rdvVars, lockVars, fileVars>>

(* A faulty handler: a join without port is stored before the missing key  *)
(* is looked up.                                                           *)
OnInvalidStoresJoin(r, kind, u, t) ==
    IF kind = "join_no_port" THEN Put(r, u, OnlineRecord(Host[u], 0, t)) ELSE r

(* The registry r after _handle_message raised KeyError on a message of    *)
(* that kind from u: message["type"] at 153, or message["username"] and    *)
(* message["port"] inside the with-blocks at 155-161, 180-181 and 193-194, *)
(* each before anything is stored.                                         *)
OnInvalid(r, kind, u, t) == r

(* _handle_client for a message that lacks a field the handler indexes:    *)
(* _handle_message raises, the with-block it may be in is left, the except *)
(* clause reports the error (136-137) and the finally clause closes the    *)
(* connection (138-139). The accept thread is another thread.              *)
HandleInvalid(n, m, kind) ==
    /\ alive[n] /\ connected[n]
    /\ BagIn(m, net) /\ m.to = n
    /\ m.type = Invalid
    /\ net' = net (-) SetToBag({m})
    /\ peers' = [peers EXCEPT ![n] = OnInvalid(@, kind, m.username, now)]
    /\ logged' = <<Shown(n, kind, m.username)>>
    /\ emitted' = <<>>
    /\ returned' = NoReturn
    /\ skipped' = <<>>
    /\ UNCHANGED <<now, alive, connected, sockOpen, ui, jc, bcQueue, dcQueue,
                   hbPc, hbQueue, hbCur, budget, acceptPc, departed>>
    /\ UNCHANGED <<frameVars, rdvVars, lockVars, fileVars>>

(* _handle_client with connected False: the message is dropped unread.     *)
DropMessage(n, m) ==
    /\ alive[n] /\ ~connected[n]
    /\ BagIn(m, net) /\ m.to = n
    /\ net' = net (-) SetToBag({m})
    /\ emitted' = <<>>
    /\ returned' = NoReturn
    /\ UNCHANGED <<now, peers, alive, connected, sockOpen, ui, jc, bcQueue, dcQueue,
                   hbPc, hbQueue, hbCur, budget>>
    /\ logged' = <<>> /\ skipped' = <<>>
    /\ UNCHANGED <<acceptPc, departed>>
    /\ UNCHANGED <<frameVars, rdvVars, lockVars, fileVars>>

(* The types of one-shot message that no branch of _handle_message writes  *)
(* the registry for: a file chunk, and a type it does not know.            *)
OtherTypes == {"file_chunk", "unknown"}

(* One chunk of select_file / send_file goes from n to the peer u of its    *)
(* registry (chat.py 66-73, file_transfer.py 140-172, chat.py 47-61); or a  *)
(* message of a type the handler does not know, or one that lacks a field,  *)
(* reaches that peer from n's host. A failed connect is printed and nothing *)
(* else.                                                                    *)
SendOther(n, u, type) ==
    /\ alive[n] /\ ui[n] = "idle"
    /\ u \in DOMAIN peers[n]
    /\ MayStart(budget.others, MaxOthers)
    /\ budget' = [budget EXCEPT !.others = @ + 1]
    /\ LET target == Listener(peers[n][u].address, peers[n][u].port) IN
       IF target = {} THEN UNCHANGED net
       ELSE /\ InFlight < MaxNet
            /\ net' = Send(Msg(CHOOSE t \in target : TRUE, type, n))
    /\ emitted' = <<>>
    /\ returned' = NoReturn
    /\ logged' = <<>> /\ skipped' = <<>>
    /\ UNCHANGED <<now, peers, alive, connected, sockOpen, ui, jc, bcQueue, dcQueue,
                   hbPc, hbQueue, hbCur, acceptPc, departed>>
    /\ UNCHANGED <<frameVars, rdvVars, lockVars, fileVars>>

-----------------------------------------------------------------------------
(* broadcast_message, on the UI thread.                                    *)

(* The copy of the registry taken under the lock.                          *)
BroadcastStart(n) ==
    /\ alive[n] /\ ui[n] = "idle"
    /\ MayStart(budget.bcasts, MaxBroadcasts)
    /\ budget' = [budget EXCEPT !.bcasts = @ + 1]
    /\ bcQueue' = [bcQueue EXCEPT ![n] = peers[n]]
    /\ ui' = [ui EXCEPT ![n] = IF DOMAIN peers[n] = {} THEN "idle" ELSE "bcast"]
    /\ emitted' = <<>>
    /\ returned' = NoReturn
    /\ UNCHANGED <<now, peers, alive, connected, sockOpen, jc, dcQueue,
                   hbPc, hbQueue, hbCur, net>>
    /\ logged' = <<>> /\ skipped' = <<>>
    /\ UNCHANGED <<acceptPc, departed>>
    /\ UNCHANGED <<frameVars, rdvVars, lockVars, fileVars>>

(* The registry r after broadcast_message failed to reach username u.      *)
OnSendFailure(r, u) == IF u \in DOMAIN r THEN Del(r, u) ELSE r

(* One turn of the loop: connect to the copied address and port and send   *)
(* the chat; the except clause logs the failure and removes the peer.      *)
BroadcastSend(n, u, result) ==
    /\ alive[n] /\ ui[n] = "bcast" /\ u \in DOMAIN bcQueue[n]
    /\ LET target == Listener(bcQueue[n][u].address, bcQueue[n][u].port)
           rest == Del(bcQueue[n], u)
       IN /\ result \in Results(target, FALSE)
          /\ IF result = "sent"
             THEN /\ InFlight < MaxNet
                  /\ net' = Send(Msg(CHOOSE t \in target : TRUE, "chat", n))
             ELSE UNCHANGED net
          /\ IF RanAsSent(result)
             THEN UNCHANGED peers /\ logged' = <<>>
             ELSE /\ peers' = [peers EXCEPT ![n] = OnSendFailure(@, u)]
                  /\ logged' = <<SendError(n, u)>>
          /\ bcQueue' = [bcQueue EXCEPT ![n] = rest]
          /\ ui' = [ui EXCEPT ![n] = IF DOMAIN rest = {} THEN "idle" ELSE "bcast"]
    /\ budget' = Spent(result)
    /\ emitted' = <<>>
    /\ returned' = NoReturn
    /\ skipped' = <<>>
    /\ UNCHANGED <<now, alive, connected, sockOpen, jc, dcQueue,
                   hbPc, hbQueue, hbCur, acceptPc, departed>>
    /\ UNCHANGED <<frameVars, rdvVars, lockVars, fileVars>>

-----------------------------------------------------------------------------
(* _send_heartbeat, the liveness monitor thread.                           *)

(* A faulty monitor: it probes every entry in every cycle.                 *)
IsStaleAlways(t, last_seen) == t - last_seen >= 0

(* Whether the monitor probes an entry last seen at last_seen in a cycle   *)
(* that read the clock at current_time.                                    *)
IsStale(t, last_seen) == t - last_seen > StaleAfter

(* The head of a cycle: read the clock and copy the registry under the     *)
(* lock. The loop body does nothing for an entry of the copy that is not   *)
(* stale, so the queue keeps the stale entries of the copy only.           *)
MonitorStart(n) ==
    /\ alive[n] /\ connected[n] /\ hbPc[n] = "sleep"
    /\ \E u \in DOMAIN peers[n] : IsStale(now, peers[n][u].last_seen)
    /\ budget.cycles < MaxCycles
    /\ budget' = [budget EXCEPT !.cycles = @ + 1]
    /\ hbQueue' = [hbQueue EXCEPT ![n] =
                      [u \in {x \in DOMAIN peers[n] : IsStale(now, peers[n][x].last_seen)}
                          |-> peers[n][u]]]
    /\ hbPc' = [hbPc EXCEPT ![n] = "scan"]
    /\ emitted' = <<>>
    /\ returned' = NoReturn
    /\ UNCHANGED <<now, peers, alive, connected, sockOpen, ui, jc, bcQueue, dcQueue,
                   hbCur, net>>
    /\ logged' = <<>> /\ skipped' = <<>>
    /\ UNCHANGED <<acceptPc, departed>>
    /\ UNCHANGED <<frameVars, rdvVars, lockVars, fileVars>>

(* The loop test after disconnect(): the thread ends.                      *)
MonitorStop(n) ==
    /\ alive[n] /\ ~connected[n] /\ hbPc[n] = "sleep"
    /\ hbPc' = [hbPc EXCEPT ![n] = "stopped"]
    /\ emitted' = <<>>
    /\ returned' = NoReturn
    /\ UNCHANGED <<now, peers, alive, connected, sockOpen, ui, jc, bcQueue, dcQueue,
                   hbQueue, hbCur, net, budget>>
    /\ logged' = <<>> /\ skipped' = <<>>
    /\ UNCHANGED <<acceptPc, departed>>
    /\ UNCHANGED <<frameVars, rdvVars, lockVars, fileVars>>

(* The probe of one stale entry of the copy: old_status is read from the   *)
(* copy, then connect (5 s timeout) and send heartbeat, outside the lock.  *)
MonitorProbe(n, u, result) ==
    /\ alive[n] /\ hbPc[n] = "scan" /\ u \in DOMAIN hbQueue[n]
    /\ LET target == Listener(hbQueue[n][u].address, hbQueue[n][u].port)
       IN /\ result \in Results(target, TRUE)
          /\ IF result = "sent"
             THEN /\ InFlight < MaxNet
                  /\ net' = Send(Msg(CHOOSE t \in target : TRUE, "heartbeat", n))
             ELSE UNCHANGED net
    /\ hbPc' = [hbPc EXCEPT ![n] = IF RanAsSent(result) THEN "write_ok" ELSE "write_fail"]
    /\ hbCur' = [hbCur EXCEPT ![n] =
                    Probe(u, hbQueue[n][u].status, result,
                          IF u \in DOMAIN peers[n] THEN peers[n][u].last_seen ELSE -1)]
    /\ hbQueue' = [hbQueue EXCEPT ![n] = Del(@, u)]
    /\ budget' = Spent(result)
    /\ emitted' = <<>>
    /\ returned' = NoReturn
    /\ UNCHANGED <<now, peers, alive, connected, sockOpen, ui, jc, bcQueue, dcQueue>>
    /\ logged' = <<>> /\ skipped' = <<>>
    /\ UNCHANGED <<acceptPc, departed>>
    /\ UNCHANGED <<frameVars, rdvVars, lockVars, fileVars>>

(* A faulty monitor: it writes the result of a successful probe without    *)
(* looking whether the registry still holds the peer.                      *)
OnProbeOkCreates(r, u, t) ==
    [x \in DOMAIN r \cup {u} |->
        IF x # u THEN r[x]
        ELSE [address |-> Host[u], port |-> ListenPort[u], last_seen |-> t,
              status |-> "online"]]

(* The registry r after a successful probe of username u at time t.        *)
OnProbeOk(r, u, t) ==
    IF u \in DOMAIN r
    THEN [r EXCEPT ![u].last_seen = t, ![u].status = "online"]
    ELSE r

(* A faulty monitor: its except clause stamps the entry it marks.          *)
OnProbeFailRefreshes(r, u) ==
    IF u \in DOMAIN r THEN [r EXCEPT ![u].status = "offline", ![u].last_seen = now] ELSE r

(* The registry r after a failed probe of username u.                      *)
OnProbeFail(r, u) ==
    IF u \in DOMAIN r THEN [r EXCEPT ![u].status = "offline"] ELSE r

(* The status_callback calls after a probe of u: on success the status     *)
(* compared is the one of the copy, on failure the one of the registry.    *)
ProbeEvents(n, r, u, ok, old_status) ==
    IF u \notin DOMAIN r THEN <<>>
    ELSE IF ok THEN (IF old_status # "online" THEN <<Event(n, u, "online", "monitor")>> ELSE <<>>)
    ELSE (IF r[u].status # "offline" THEN <<Event(n, u, "offline", "monitor")>> ELSE <<>>)

(* The write of a probe's result under the lock; after the last entry the  *)
(* thread sleeps until the next cycle.                                     *)
MonitorWrite(n) ==
    /\ alive[n] /\ hbPc[n] \in {"write_ok", "write_fail"}
    /\ LET u == hbCur[n].peer
           ok == hbPc[n] = "write_ok"
       IN /\ peers' = [peers EXCEPT ![n] = IF ok THEN OnProbeOk(@, u, now)
                                           ELSE OnProbeFail(@, u)]
          /\ emitted' = ProbeEvents(n, peers[n], u, ok, hbCur[n].old_status)
          /\ skipped' = IF u \in DOMAIN peers[n] THEN <<>> ELSE <<Skip(n, u, "monitor")>>
    /\ hbPc' = [hbPc EXCEPT ![n] = IF DOMAIN hbQueue[n] = {} THEN "sleep" ELSE "scan"]
    /\ hbCur' = [hbCur EXCEPT ![n] = NoProbe]
    /\ returned' = NoReturn
    /\ logged' = <<>>
    /\ UNCHANGED <<now, alive, connected, sockOpen, ui, jc, bcQueue, dcQueue,
                   hbQueue, net, budget, acceptPc, departed>>
    /\ UNCHANGED <<frameVars, rdvVars, lockVars, fileVars>>

-----------------------------------------------------------------------------
(* disconnect(), on the UI thread.                                         *)

(* A faulty disconnect(): it leaves the running flag set.                  *)
DisconnectStartKeepsRunning(n) ==
    /\ alive[n] /\ ui[n] = "idle"
    /\ MayStart(budget.discs, MaxDisconnects)
    /\ budget' = [budget EXCEPT !.discs = @ + 1]
    /\ dcQueue' = [dcQueue EXCEPT ![n] = peers[n]]
    /\ ui' = [ui EXCEPT ![n] = "disc"]
    /\ emitted' = <<>>
    /\ returned' = NoReturn
    /\ logged' = <<>> /\ skipped' = <<>>
    /\ UNCHANGED <<now, peers, alive, connected, sockOpen, jc, bcQueue,
                   hbPc, hbQueue, hbCur, net, acceptPc, departed>>
    /\ UNCHANGED <<frameVars, rdvVars, lockVars, fileVars>>

(* Clear the flag and copy the registry under the lock.                    *)
DisconnectStart(n) ==
    /\ alive[n] /\ ui[n] = "idle"
    /\ MayStart(budget.discs, MaxDisconnects)
    /\ budget' = [budget EXCEPT !.discs = @ + 1]
    /\ connected' = [connected EXCEPT ![n] = FALSE]
    /\ dcQueue' = [dcQueue EXCEPT ![n] = peers[n]]
    /\ ui' = [ui EXCEPT ![n] = "disc"]
    /\ emitted' = <<>>
    /\ returned' = NoReturn
    /\ UNCHANGED <<now, peers, alive, sockOpen, jc, bcQueue,
                   hbPc, hbQueue, hbCur, net>>
    /\ logged' = <<>> /\ skipped' = <<>>
    /\ UNCHANGED <<acceptPc, departed>>
    /\ UNCHANGED <<frameVars, rdvVars, lockVars, fileVars>>

(* One turn of the loop: send leave, ignoring a failure.                   *)
DisconnectSend(n, u, result) ==
    /\ alive[n] /\ ui[n] = "disc" /\ u \in DOMAIN dcQueue[n]
    /\ LET target == Listener(dcQueue[n][u].address, dcQueue[n][u].port)
       IN /\ result \in Results(target, FALSE)
          /\ IF result = "sent"
             THEN /\ InFlight < MaxNet
                  /\ net' = Send(Msg(CHOOSE t \in target : TRUE, "leave", n))
             ELSE UNCHANGED net
    /\ dcQueue' = [dcQueue EXCEPT ![n] = Del(@, u)]
    /\ budget' = Spent(result)
    /\ emitted' = <<>>
    /\ returned' = NoReturn
    /\ UNCHANGED <<now, peers, alive, connected, sockOpen, ui, jc, bcQueue,
                   hbPc, hbQueue, hbCur>>
    /\ logged' = <<>> /\ skipped' = <<>>
    /\ UNCHANGED <<acceptPc, departed>>
    /\ UNCHANGED <<frameVars, rdvVars, lockVars, fileVars>>

(* After the loop: shut down and close the listening socket.               *)
DisconnectClose(n) ==
    /\ alive[n] /\ ui[n] = "disc" /\ DOMAIN dcQueue[n] = {}
    /\ sockOpen' = [sockOpen EXCEPT ![n] = FALSE]
    /\ ui' = [ui EXCEPT ![n] = "closed"]
    /\ emitted' = <<>>
    /\ returned' = NoReturn
    /\ UNCHANGED <<now, peers, alive, connected, jc, bcQueue, dcQueue,
                   hbPc, hbQueue, hbCur, net, budget>>
    /\ logged' = <<>> /\ skipped' = <<>>
    /\ UNCHANGED <<acceptPc, departed>>
    /\ UNCHANGED <<frameVars, rdvVars, lockVars, fileVars>>

-----------------------------------------------------------------------------
(* _listen_for_connections after disconnect(): accept() returns or raises  *)
(* once a connection arrives or the listening socket is closed, and the    *)
(* loop test ends the thread.                                              *)
AcceptStop(n) ==
    /\ alive[n] /\ ~connected[n] /\ acceptPc[n] = "accept"
    /\ \/ ~sockOpen[n]
       \/ \E m \in DOMAIN net : m.to = n
       \/ \E j \in Nodes : jc[j].to = n /\ jc[j].stage \in {"join_sent", "req_sent"}
    /\ acceptPc' = [acceptPc EXCEPT ![n] = "stopped"]
    /\ emitted' = <<>>
    /\ returned' = NoReturn
    /\ logged' = <<>> /\ skipped' = <<>>
    /\ UNCHANGED departed
    /\ UNCHANGED <<now, peers, alive, connected, sockOpen, ui, jc, bcQueue, dcQueue,
                   hbPc, hbQueue, hbCur, net, budget>>
    /\ UNCHANGED <<frameVars, rdvVars, lockVars, fileVars>>

-----------------------------------------------------------------------------
(* The environment: a node's process is killed. It sends no leave, its     *)
(* address refuses connections from then on, what was sent to it is lost,  *)
(* its connections are closed and its memory (registry, copies, thread     *)
(* positions) is gone.                                                     *)
Crash(n) ==
    /\ alive[n]
    /\ MayStart(budget.crashes, MaxCrashes)
    /\ budget' = [budget EXCEPT !.crashes = @ + 1]
    /\ alive' = [alive EXCEPT ![n] = FALSE]
    /\ net' = [m \in {x \in DOMAIN net : x.to # n} |-> net[m]]
    /\ jc' = [j \in Nodes |->
                 IF j = n
                 THEN (IF jc[j].stage \in {"join_sent", "upserted", "req_sent"}
                          /\ jc[j].to # n
                       THEN [jc[j] EXCEPT !.jside = "idle"] ELSE NoConn)
                 ELSE IF jc[j].to = n /\ jc[j].stage # "none"
                 THEN (IF jc[j].jside = "idle" THEN NoConn
                       ELSE IF jc[j].stage \in {"welcome_sent", "list_sent"} THEN jc[j]
                       ELSE [jc[j] EXCEPT !.stage = "dead"])
                 ELSE jc[j]]
    /\ peers' = [peers EXCEPT ![n] = EmptyDict]
    /\ connected' = [connected EXCEPT ![n] = FALSE]
    /\ sockOpen' = [sockOpen EXCEPT ![n] = FALSE]
    /\ ui' = [ui EXCEPT ![n] = "closed"]
    /\ bcQueue' = [bcQueue EXCEPT ![n] = EmptyDict]
    /\ dcQueue' = [dcQueue EXCEPT ![n] = EmptyDict]
    /\ hbPc' = [hbPc EXCEPT ![n] = "stopped"]
    /\ hbQueue' = [hbQueue EXCEPT ![n] = EmptyDict]
    /\ hbCur' = [hbCur EXCEPT ![n] = NoProbe]
    /\ emitted' = <<>>
    /\ returned' = NoReturn
    /\ acceptPc' = [acceptPc EXCEPT ![n] = "stopped"]
    /\ departed' = [departed EXCEPT ![n] = {}]
    /\ logged' = <<>> /\ skipped' = <<>>
    /\ UNCHANGED now
    /\ UNCHANGED <<frameVars, rdvVars, lockVars, fileVars>>

-----------------------------------------------------------------------------
NextNode ==
    \/ Tick
    \/ \E j \in Nodes, a \in Seeds : JoinStart(j, a)
    \/ \E a, j \in Nodes : HandleJoin(a, j)
    \/ \E a, j \in Nodes : SendWelcome(a, j)
    \/ \E j \in Nodes : JoinRecvWelcome(j)
    \/ \E j \in Nodes : JoinNoWelcome(j)
    \/ \E j \in Nodes, reply \in {"closed", "other_type"} : JoinForeign(j, reply)
    \/ \E a, j \in Nodes : HandleRequestPeers(a, j)
    \/ \E j \in Nodes : JoinRecvPeerList(j)
    \/ \E j \in Nodes : JoinNoPeerList(j)
    \/ \E a, j \in Nodes : HandlerExit(a, j)
    \/ \E n \in Nodes : \E m \in DOMAIN net : HandleMessage(n, m)
    \/ \E n \in Nodes : \E m \in DOMAIN net : DropMessage(n, m)
    \/ \E n \in Nodes, kind \in InvalidKinds : \E m \in DOMAIN net :
          HandleInvalid(n, m, kind)
    \/ \E n \in Nodes : BroadcastStart(n)
    \/ \E n \in Nodes, u \in Names : \E result \in {"sent", "reset", "refused"} :
          BroadcastSend(n, u, result)
    \/ \E n \in Nodes, u \in Names, type \in OtherTypes \cup {Invalid} :
          SendOther(n, u, type)
    \/ \E n \in Nodes : MonitorStart(n)
    \/ \E n \in Nodes : MonitorStop(n)
    \/ \E n \in Nodes, u \in Names :
          \E result \in {"sent", "reset", "timeout", "refused"} : MonitorProbe(n, u, result)
    \/ \E n \in Nodes : MonitorWrite(n)
    \/ \E n \in Nodes : DisconnectStart(n)
    \/ \E n \in Nodes, u \in Names : \E result \in {"sent", "reset", "refused"} :
          DisconnectSend(n, u, result)
    \/ \E n \in Nodes : DisconnectClose(n)
    \/ \E n \in Nodes : Crash(n)

-----------------------------------------------------------------------------
(* utils.py: message framing over one connection. The bytes of the stream  *)
(* are numbers below 128, kept run-length encoded: a run is a byte and the *)
(* number of times it repeats, and no two neighbouring runs hold the same  *)
(* byte.                                                                   *)

Run(b, n) == [b |-> b, n |-> n]

Min(x, y) == IF x <= y THEN x ELSE y

RECURSIVE RLen(_)
RLen(s) == IF s = <<>> THEN 0 ELSE s[1].n + RLen(Tail(s))

(* s followed by t.                                                        *)
RCat(s, t) ==
    IF s = <<>> THEN t
    ELSE IF t = <<>> THEN s
    ELSE IF s[Len(s)].b = t[1].b
         THEN SubSeq(s, 1, Len(s) - 1) \o <<Run(t[1].b, s[Len(s)].n + t[1].n)>> \o Tail(t)
         ELSE s \o t

(* The first k bytes of s, and s without them.                             *)
RECURSIVE RTake(_, _)
RTake(s, k) ==
    IF k = 0 \/ s = <<>> THEN <<>>
    ELSE IF s[1].n <= k THEN <<s[1]>> \o RTake(Tail(s), k - s[1].n)
    ELSE <<Run(s[1].b, k)>>

RECURSIVE RDrop(_, _)
RDrop(s, k) ==
    IF k = 0 \/ s = <<>> THEN s
    ELSE IF s[1].n <= k THEN RDrop(Tail(s), k - s[1].n)
    ELSE <<Run(s[1].b, s[1].n - k)>> \o Tail(s)

(* The run-length encoding of a sequence of bytes, and back.               *)
RECURSIVE Lit(_)
Lit(q) == IF q = <<>> THEN <<>> ELSE RCat(<<Run(q[1], 1)>>, Lit(Tail(q)))

RECURSIVE Plain(_)
Plain(s) ==
    IF s = <<>> THEN <<>>
    ELSE <<s[1].b>> \o Plain(IF s[1].n = 1 THEN Tail(s)
                             ELSE <<Run(s[1].b, s[1].n - 1)>> \o Tail(s))

(* The ASCII codes of the characters the messages are made of. None of     *)
(* the letters is one of JSON's escape letters.                            *)
Ch == [quote |-> 34, comma |-> 44, zero |-> 48, colon |-> 58, bslash |-> 92,
       a |-> 97, k |-> 107, p |-> 112, lbrace |-> 123, rbrace |-> 125,
       space |-> 32, tab |-> 9, lf |-> 10, cr |-> 13]

Digit == {Ch.zero + d : d \in 0..9}
Whitespace == {Ch.space, Ch.tab, Ch.lf, Ch.cr}

(* JSON values: an object is a sequence of fields [k, v] with distinct     *)
(* keys in insertion order, as a Python dict keeps them; a string is its   *)
(* text; None stands for Python's None.                                    *)
Str(s) == [t |-> "str", s |-> s, i |-> 0, o |-> <<>>]
Num(i) == [t |-> "int", s |-> <<>>, i |-> i, o |-> <<>>]
Obj(o) == [t |-> "obj", s |-> <<>>, i |-> 0, o |-> o]
None == [t |-> "none", s |-> <<>>, i |-> 0, o |-> <<>>]
Field(k, v) == [k |-> k, v |-> v]

(* json.dumps: its default separators, ASCII output, the two escapes the   *)
(* characters above need.                                                  *)
RECURSIVE Digits(_)
Digits(n) == IF n < 10 THEN <<Ch.zero + n>> ELSE Digits(n \div 10) \o <<Ch.zero + (n % 10)>>

RECURSIVE EscapeRun(_, _)
EscapeRun(b, n) ==
    IF n = 0 THEN <<>> ELSE RCat(Lit(<<Ch.bslash, b>>), EscapeRun(b, n - 1))

RECURSIVE Escape(_)
Escape(s) ==
    IF s = <<>> THEN <<>>
    ELSE RCat(IF s[1].b \in {Ch.quote, Ch.bslash} THEN EscapeRun(s[1].b, s[1].n)
              ELSE <<s[1]>>,
              Escape(Tail(s)))

DumpString(s) == RCat(Lit(<<Ch.quote>>), RCat(Escape(s), Lit(<<Ch.quote>>)))

RECURSIVE DumpValue(_), DumpFields(_)
DumpValue(v) ==
    CASE v.t = "int" -> Lit(Digits(v.i))
      [] v.t = "str" -> DumpString(v.s)
      [] OTHER -> RCat(Lit(<<Ch.lbrace>>), RCat(DumpFields(v.o), Lit(<<Ch.rbrace>>)))

DumpFields(o) ==
    IF o = <<>> THEN <<>>
    ELSE RCat(DumpString(o[1].k),
         RCat(Lit(<<Ch.colon, Ch.space>>),
         RCat(DumpValue(o[1].v),
              IF Len(o) = 1 THEN <<>>
              ELSE RCat(Lit(<<Ch.comma, Ch.space>>), DumpFields(Tail(o))))))

Dumps(m) == DumpValue(m)

(* json.loads on the grammar these characters can spell: objects, strings  *)
(* and non-negative integers. A parse gives [ok, v, rest].                 *)
Fail == [ok |-> FALSE, v |-> None, rest |-> <<>>]
Parsed(v, rest) == [ok |-> TRUE, v |-> v, rest |-> rest]

RECURSIVE SkipWs(_)
SkipWs(s) == IF s # <<>> /\ s[1].b \in Whitespace THEN SkipWs(Tail(s)) ELSE s

(* The rest of a string whose opening quote is read; acc is its text so far. *)
RECURSIVE ParseString(_, _)
ParseString(s, acc) ==
    IF s = <<>> THEN Fail
    ELSE IF s[1].b = Ch.quote THEN Parsed(Str(acc), RDrop(s, 1))
    ELSE IF s[1].b = Ch.bslash
         THEN LET e == RDrop(s, 1) IN
              IF e # <<>> /\ e[1].b \in {Ch.quote, Ch.bslash}
              THEN ParseString(RDrop(e, 1), RCat(acc, <<Run(e[1].b, 1)>>))
              ELSE Fail
    ELSE IF s[1].b < Ch.space THEN Fail
    ELSE ParseString(Tail(s), RCat(acc, <<s[1]>>))

(* The digits after the first of a number that does not start with 0.      *)
RECURSIVE ParseDigits(_, _)
ParseDigits(s, acc) ==
    IF s # <<>> /\ s[1].b \in Digit
    THEN ParseDigits(RDrop(s, 1), acc * 10 + (s[1].b - Ch.zero))
    ELSE Parsed(Num(acc), s)

(* A dict after d[k] = v.                                                  *)
PutField(o, k, v) ==
    IF \E i \in 1..Len(o) : o[i].k = k
    THEN [i \in 1..Len(o) |-> IF o[i].k = k THEN Field(k, v) ELSE o[i]]
    ELSE Append(o, Field(k, v))

RECURSIVE ParseValue(_), ParseMembers(_, _)
ParseValue(s0) ==
    LET s == SkipWs(s0) IN
    IF s = <<>> THEN Fail
    ELSE IF s[1].b = Ch.quote THEN ParseString(RDrop(s, 1), <<>>)
    ELSE IF s[1].b = Ch.zero THEN Parsed(Num(0), RDrop(s, 1))
    ELSE IF s[1].b \in Digit THEN ParseDigits(s, 0)
    ELSE IF s[1].b = Ch.lbrace
         THEN LET m == SkipWs(RDrop(s, 1)) IN
              IF m # <<>> /\ m[1].b = Ch.rbrace THEN Parsed(Obj(<<>>), RDrop(m, 1))
              ELSE ParseMembers(m, <<>>)
    ELSE Fail

(* The members of an object from its next key on; acc holds those read.    *)
ParseMembers(s0, acc) ==
    LET s == SkipWs(s0) IN
    IF s = <<>> \/ s[1].b # Ch.quote THEN Fail
    ELSE LET key == ParseString(RDrop(s, 1), <<>>) IN
         IF ~key.ok THEN Fail
         ELSE LET c == SkipWs(key.rest) IN
              IF c = <<>> \/ c[1].b # Ch.colon THEN Fail
              ELSE LET val == ParseValue(RDrop(c, 1)) IN
                   IF ~val.ok THEN Fail
                   ELSE LET e == SkipWs(val.rest)
                            o == PutField(acc, key.v.s, val.v)
                        IN IF e = <<>> THEN Fail
                           ELSE IF e[1].b = Ch.comma THEN ParseMembers(RDrop(e, 1), o)
                           ELSE IF e[1].b = Ch.rbrace THEN Parsed(Obj(o), RDrop(e, 1))
                           ELSE Fail

(* json.loads(data.decode()), None standing for its JSONDecodeError.       *)
Loads(data) ==
    LET r == ParseValue(data) IN
    IF r.ok /\ SkipWs(r.rest) = <<>> THEN r.v ELSE None

(* struct.pack("!I", n) and struct.unpack("!I", b)[0]. The bytes of the    *)
(* model are below 128.                                                    *)
Pack(n) ==
    Lit(<<n \div (256 * 256 * 256), (n \div (256 * 256)) % 256, (n \div 256) % 256, n % 256>>)

Unpack(length_bytes) ==
    LET b == Plain(length_bytes) IN ((b[1] * 256 + b[2]) * 256 + b[3]) * 256 + b[4]

(* The messages written to the stream: small ones of every shape, and two *)
(* whose JSON text is exactly the limit of receive_message and one byte    *)
(* more.                                                                   *)
KeyK == Lit(<<Ch.k>>)
KeyP == Lit(<<Ch.p>>)
Padded(n) == Obj(<<Field(KeyK, Str(<<Run(Ch.a, n)>>))>>)
EncodedLength(m) == RLen(Dumps(m))
PaddingFor(length) == length - (EncodedLength(Padded(1)) - 1)

SmallMessages ==
    { Obj(<<>>),
      Obj(<<Field(KeyP, Num(9))>>),
      Obj(<<Field(KeyK, Str(Lit(<<Ch.a, Ch.quote, Ch.bslash>>)))>>),
      Obj(<<Field(KeyK, Num(10)), Field(KeyP, Num(0))>>) }

BigMessages == {Padded(PaddingFor(MaxMessage)), Padded(PaddingFor(MaxMessage + 1))}

Messages == SmallMessages \cup BigMessages

(* sock.settimeout(None): the socket blocks.                               *)
NoTimeout == <<>>

InitFrame ==
    /\ wire = <<>>
    /\ wclosed = FALSE
    /\ sent = <<>>
    /\ rpc = "idle"
    /\ sock_timeout = NoTimeout
    /\ message_length = 0
    /\ bytes_received = 0
    /\ chunks = <<>>
    /\ split = FALSE
    /\ results = <<>>
    /\ wreset = FALSE
    /\ calls = <<>>

(* What one send_message call did: whether sendall wrote the packet, how   *)
(* many times sendall was called, and whether the caller saw an exception. *)
Call(wrote, attempts, raised) == [wrote |-> wrote, attempts |-> attempts, raised |-> raised]

(* send_message(sock, m): sendall of the prefix and the JSON text.         *)
SendMessage(m) ==
    /\ ~wclosed /\ ~wreset
    /\ Len(calls) < MaxSends
    /\ LET data == Dumps(m) IN wire' = RCat(wire, RCat(Pack(RLen(data)), data))
    /\ sent' = Append(sent, m)
    /\ calls' = Append(calls, Call(TRUE, 1, FALSE))
    /\ UNCHANGED <<wclosed, rpc, sock_timeout, message_length, bytes_received,
                   chunks, split, results, wreset>>
    /\ UNCHANGED <<nodeVars, rdvVars, lockVars, fileVars>>

(* The sender closes its end of the connection.                            *)
SendClose ==
    /\ ~wclosed
    /\ wclosed' = TRUE
    /\ UNCHANGED <<wire, sent, rpc, sock_timeout, message_length, bytes_received,
                   chunks, split, results>>
    /\ UNCHANGED <<wreset, calls>>
    /\ UNCHANGED <<nodeVars, rdvVars, lockVars, fileVars>>

(* The receiving end closes its socket between two receive_message calls   *)
(* with the connection still open: the sender's next write is answered     *)
(* with a reset.                                                           *)
ConnReset ==
    /\ ~wclosed /\ ~wreset
    /\ rpc = "idle"
    /\ wreset' = TRUE
    /\ UNCHANGED <<wire, wclosed, sent, rpc, sock_timeout, message_length,
                   bytes_received, chunks, split, results, calls>>
    /\ UNCHANGED <<nodeVars, rdvVars, lockVars, fileVars>>

(* send_message(sock, m) on a connection that was reset: sendall raises    *)
(* (broken pipe, connection reset), the except clause prints the error,    *)
(* and the call is over.                                                   *)
SendFails(m) ==
    /\ ~wclosed /\ wreset
    /\ Len(calls) < MaxSends
    /\ calls' = Append(calls, Call(FALSE, 1, SendReports))
    /\ UNCHANGED <<wire, wclosed, sent, rpc, sock_timeout, message_length,
                   bytes_received, chunks, split, results, wreset>>
    /\ UNCHANGED <<nodeVars, rdvVars, lockVars, fileVars>>

(* A faulty return: the finally clause does not reset the timeout.         *)
FinishKeepsTimeout(val, how, declared, received, in_parts) ==
    /\ results' = Append(results, [val |-> val, how |-> how, declared |-> declared,
                                   received |-> received, split |-> in_parts])
    /\ rpc' = "idle"
    /\ sock_timeout' = sock_timeout
    /\ message_length' = 0
    /\ bytes_received' = 0
    /\ chunks' = <<>>
    /\ split' = FALSE

(* receive_message returns val from the place `how`; the finally clause    *)
(* puts the socket back to blocking.                                       *)
Finish(val, how, declared, received, in_parts) ==
    /\ results' = Append(results, [val |-> val, how |-> how, declared |-> declared,
                                   received |-> received, split |-> in_parts])
    /\ rpc' = "idle"
    /\ sock_timeout' = NoTimeout
    /\ message_length' = 0
    /\ bytes_received' = 0
    /\ chunks' = <<>>
    /\ split' = FALSE

(* The return of json.loads(data.decode()) or of its except clause.        *)
Decoded(data, declared, received, in_parts) ==
    LET v == Loads(data) IN
    Finish(v, IF v = None THEN "bad_json" ELSE "ok", declared, received, in_parts)

(* receive_message is called: sock.settimeout(10.0).                       *)
ReceiveStart ==
    /\ rpc = "idle" /\ ~wreset
    /\ Len(results) < MaxRecvs
    /\ rpc' = "prefix"
    /\ sock_timeout' = <<RecvTimeout>>
    /\ UNCHANGED <<wire, wclosed, sent, message_length, bytes_received, chunks,
                   split, results>>
    /\ UNCHANGED <<wreset, calls>>
    /\ UNCHANGED <<nodeVars, rdvVars, lockVars, fileVars>>

(* A faulty sanity check: it refuses the limit itself.                     *)
TooLargeFromLimit(n) == n >= MaxMessage

(* The sanity check on the declared length.                                *)
TooLarge(n) == n > MaxMessage

(* sock.recv(4) gives k bytes, and what follows up to the body loop.       *)
RecvPrefix(k) ==
    /\ rpc = "prefix"
    /\ wire # <<>>
    /\ k \in 1..Min(PrefixLen, RLen(wire))
    /\ wire' = RDrop(wire, k)
    /\ IF k < PrefixLen
       THEN Finish(None, "short_prefix", 0, 0, FALSE)
       ELSE LET n == Unpack(RTake(wire, k)) IN
            IF TooLarge(n) THEN Finish(None, "too_large", n, 0, FALSE)
            ELSE IF ~(0 < n) THEN Decoded(<<>>, n, 0, FALSE)
            ELSE /\ rpc' = "body"
                 /\ message_length' = n
                 /\ bytes_received' = 0
                 /\ chunks' = <<>>
                 /\ split' = FALSE
                 /\ UNCHANGED <<sock_timeout, results>>
    /\ UNCHANGED <<wclosed, sent>>
    /\ UNCHANGED <<wreset, calls>>
    /\ UNCHANGED <<nodeVars, rdvVars, lockVars, fileVars>>

(* A recv with nothing to read: b"" once the sender has closed, else       *)
(* socket.timeout after ten seconds.                                       *)
RecvNothing ==
    /\ rpc \in {"prefix", "body"}
    /\ wire = <<>>
    /\ Finish(None, IF wclosed THEN "closed" ELSE "timeout",
              message_length, bytes_received, split)
    /\ UNCHANGED <<wire, wclosed, sent>>
    /\ UNCHANGED <<wreset, calls>>
    /\ UNCHANGED <<nodeVars, rdvVars, lockVars, fileVars>>

(* A faulty body loop: it asks for a whole chunk every time.               *)
WantChunk(remaining) == ChunkSize

(* The size the body loop asks recv for.                                   *)
Want(remaining) == Min(remaining, ChunkSize)

(* The whole chunks the loop can still read one after the other.           *)
FullChunks ==
    Min((message_length - bytes_received) \div ChunkSize, RLen(wire) \div ChunkSize)

(* Where the model lets a recv of the body return less than it could: in   *)
(* the first and the last MaxShortSpan bytes of a body.                    *)
MayBeShort(k) ==
    \/ bytes_received + k <= MaxShortSpan
    \/ message_length - bytes_received <= MaxShortSpan

(* The body loop after recv gave k bytes in `reads` calls.                 *)
BodyRead(k, reads) ==
    /\ wire' = RDrop(wire, k)
    /\ LET data == RCat(chunks, RTake(wire, k))
           got == bytes_received + k
       IN IF got < message_length
          THEN /\ chunks' = data
               /\ bytes_received' = got
               /\ split' = (split \/ reads > 1 \/ bytes_received > 0)
               /\ UNCHANGED <<rpc, sock_timeout, message_length, results>>
          ELSE Decoded(data, message_length, got, split \/ reads > 1 \/ bytes_received > 0)
    /\ UNCHANGED <<wclosed, sent>>
    /\ UNCHANGED <<wreset, calls>>
    /\ UNCHANGED <<nodeVars, rdvVars, lockVars, fileVars>>

(* The sizes one recv of the body loop may give: all it is asked for and  *)
(* the stream holds, or less.                                              *)
ReadSizes ==
    LET cap == Min(Want(message_length - bytes_received), RLen(wire)) IN
    {k \in (1..Min(cap, MaxShortSpan)) \cup {cap} :
        /\ k < cap => MayBeShort(k)
        /\ k = cap => FullChunks < 2}

(* One pass of the body loop: recv gives k bytes.                          *)
RecvBody(k) ==
    /\ rpc = "body"
    /\ wire # <<>>
    /\ k \in ReadSizes
    /\ BodyRead(k, 1)

(* Passes of the body loop that each read a whole chunk, taken together.   *)
RecvChunks ==
    /\ rpc = "body"
    /\ FullChunks >= 2
    /\ BodyRead(FullChunks * ChunkSize, FullChunks)

NextFrame ==
    \/ \E m \in Messages : SendMessage(m)
    \/ SendClose
    \/ ConnReset
    \/ \E m \in Messages : SendFails(m)
    \/ ReceiveStart
    \/ \E k \in 1..PrefixLen : RecvPrefix(k)
    \/ RecvNothing
    \/ \E k \in ReadSizes : RecvBody(k)
    \/ RecvChunks

-----------------------------------------------------------------------------
(* presence_server.py and presence_client.py: the rendezvous service and   *)
(* its clients. Every request travels on a connection of its own; the      *)
(* service handles each under its lock.                                    *)

Clients == {"alice", "bob"}

(* The address a client announces: its socket's local address.             *)
LocalIp(c) == IF Host[c] = "0.0.0.0" THEN "127.0.0.1" ELSE Host[c]

NoRequest ==
    [op |-> "none", stage |-> "none", port |-> 0, reply |-> "none", users |-> {},
     username |-> "", fields |-> {}, reason |-> ""]
Request(op, port) ==
    [op |-> op, stage |-> "sent", port |-> port, reply |-> "none", users |-> {},
     username |-> "", fields |-> {}, reason |-> ""]

(* A register request: `fields` are the keys the message holds; a key it   *)
(* lacks has no value (username "" and port 0 are written for it and never *)
(* read).                                                                  *)
Register(username, port, fields) ==
    [Request("register", port) EXCEPT !.username = username, !.fields = fields]

(* The register requests that come for client c: the presence client's,    *)
(* with every key, a truthy or a falsy value under each, and those of      *)
(* other programs that leave a key out.                                    *)
Registers(c) ==
    {Register(c, ListenPort[c], {"username", "port"}),
     Register(c, 0, {"username", "port"}),
     Register("", ListenPort[c], {"username", "port"}),
     Register(c, 0, {"username"}),
     Register("", ListenPort[c], {"port"})}

(* A return of register (TRUE or FALSE) or of get_online_users (a list),   *)
(* and the reply it was computed from.                                     *)
Answer(c, op, value, reply) == [client |-> c, op |-> op, value |-> value, reply |-> reply]
NoAnswer == Answer("", "none", FALSE, "none")

RdvMsg(type, username) == [type |-> type, username |-> username]

InitRdv ==
    /\ clock = 0
    /\ online_users = EmptyDict
    /\ running = TRUE
    /\ cleanupPc = "sleep"
    /\ sleep_until = SweepInterval
    /\ current_time = 0
    /\ registered = [c \in Clients |-> FALSE]
    /\ hb_running = [c \in Clients |-> FALSE]
    /\ heartbeat_threads = [c \in Clients |-> 0]
    /\ rq = [c \in Clients |-> NoRequest]
    /\ rnet = EmptyBag
    /\ answer = NoAnswer
    /\ removed = {}
    /\ ignored = <<>>
    /\ used = [registers |-> 0, queries |-> 0, beats |-> 0, unregisters |-> 0, stops |-> 0]

(* Whether one more call of a kind, started `count` times out of `max`,    *)
(* may start.                                                              *)
MayCall(count, max) ==
    /\ count < max
    /\ used.registers + used.queries + used.beats + used.unregisters + used.stops
          < MaxCalls

(* What every step of the service and its clients starts from: the outputs *)
(* of the step before are gone.                                            *)
Quiet == answer' = NoAnswer /\ removed' = {} /\ ignored' = <<>>

(* time.time() is read again later.                                        *)
RdvTick ==
    /\ clock' \in RdvClockReadings
    /\ clock' > clock
    /\ \A t \in RdvClockReadings : ~(clock < t /\ t < clock')
    /\ Quiet
    /\ UNCHANGED <<online_users, running, cleanupPc, sleep_until, current_time,
                   registered, hb_running, heartbeat_threads, rq, rnet, used>>
    /\ UNCHANGED <<nodeVars, frameVars, lockVars, fileVars>>

(* register(), up to the sent request. A refused connect returns False.    *)
RegisterSend(c, message) ==
    /\ rq[c] = NoRequest
    /\ MayCall(used.registers, MaxRegisters)
    /\ used' = [used EXCEPT !.registers = @ + 1]
    /\ IF running
       THEN /\ rq' = [rq EXCEPT ![c] = message]
            /\ Quiet
       ELSE /\ answer' = Answer(c, "register", FALSE, "refused")
            /\ removed' = {} /\ ignored' = <<>>
            /\ UNCHANGED rq
    /\ UNCHANGED <<clock, online_users, running, cleanupPc, sleep_until, current_time,
                   registered, hb_running, heartbeat_threads, rnet>>
    /\ UNCHANGED <<nodeVars, frameVars, lockVars, fileVars>>

(* A faulty _register_user: it asks only whether the keys are there.       *)
RegisterHasKeys(message) == {"username", "port"} \subseteq message.fields

(* Whether _register_user goes on to store: message.get() of both keys is  *)
(* truthy, that is, the key is there and its value is not "" or 0.         *)
RegisterValid(message) ==
    /\ "username" \in message.fields /\ message.username # ""
    /\ "port" \in message.fields /\ message.port # 0

(* The record _register_user stores.                                       *)
UserRecord(client_ip, user_port, t) ==
    [address |-> client_ip, port |-> user_port, last_seen |-> t]

(* _handle_client and _register_user for client c's request.               *)
ServerRegister(c) ==
    /\ running
    /\ rq[c].op = "register" /\ rq[c].stage = "sent"
    /\ IF RegisterValid(rq[c])
       THEN /\ online_users' = Put(online_users, rq[c].username,
                                   UserRecord(LocalIp(c), rq[c].port, clock))
            /\ rq' = [rq EXCEPT ![c].stage = "replied", ![c].reply = "success"]
       ELSE /\ rq' = [rq EXCEPT ![c].stage = "replied", ![c].reply = "failure",
                               ![c].reason = "Missing required fields"]
            /\ UNCHANGED online_users
    /\ Quiet
    /\ UNCHANGED <<clock, running, cleanupPc, sleep_until, current_time,
                   registered, hb_running, heartbeat_threads, rnet, used>>
    /\ UNCHANGED <<nodeVars, frameVars, lockVars, fileVars>>

(* A faulty test of the reply: any reply counts as a success.              *)
RegisterSucceededOnAnyReply(reply) == reply # "none"

(* "if response and response.get("success")".                              *)
RegisterSucceeded(reply) == reply = "success"

(* register(), from receive_message on: the reply, or None when the        *)
(* service stopped before it answered. A success starts one more           *)
(* _send_heartbeats thread, whatever threads there are.                    *)
RegisterReturn(c) ==
    /\ rq[c].op = "register"
    /\ rq[c].stage = "replied" \/ (rq[c].stage = "sent" /\ ~running)
    /\ LET success == RegisterSucceeded(rq[c].reply) IN
       /\ registered' = [registered EXCEPT ![c] = @ \/ success]
       /\ hb_running' = [hb_running EXCEPT ![c] = @ \/ success]
       /\ heartbeat_threads' =
              [heartbeat_threads EXCEPT ![c] = IF success THEN @ + 1 ELSE @]
       /\ answer' = Answer(c, "register", success, rq[c].reply)
    /\ removed' = {} /\ ignored' = <<>>
    /\ rq' = [rq EXCEPT ![c] = NoRequest]
    /\ UNCHANGED <<clock, online_users, running, cleanupPc, sleep_until, current_time,
                   rnet, used>>
    /\ UNCHANGED <<nodeVars, frameVars, lockVars, fileVars>>

(* get_online_users(), up to the sent query. A refused connect returns []. *)
QuerySend(c) ==
    /\ rq[c] = NoRequest
    /\ MayCall(used.queries, MaxQueries)
    /\ used' = [used EXCEPT !.queries = @ + 1]
    /\ IF running
       THEN /\ rq' = [rq EXCEPT ![c] = Request("query", 0)]
            /\ Quiet
       ELSE /\ answer' = Answer(c, "query", {}, "refused")
            /\ removed' = {} /\ ignored' = <<>>
            /\ UNCHANGED rq
    /\ UNCHANGED <<clock, online_users, running, cleanupPc, sleep_until, current_time,
                   registered, hb_running, heartbeat_threads, rnet>>
    /\ UNCHANGED <<nodeVars, frameVars, lockVars, fileVars>>

(* The user_list of _send_online_users.                                    *)
UserList(users) ==
    {[username |-> u, address |-> users[u].address, port |-> users[u].port] :
        u \in DOMAIN users}

(* _handle_client and _send_online_users for client c's query.             *)
ServerQuery(c) ==
    /\ running
    /\ rq[c].op = "query" /\ rq[c].stage = "sent"
    /\ rq' = [rq EXCEPT ![c].stage = "replied", ![c].reply = "online_users",
                        ![c].users = UserList(online_users)]
    /\ Quiet
    /\ UNCHANGED <<clock, online_users, running, cleanupPc, sleep_until, current_time,
                   registered, hb_running, heartbeat_threads, rnet, used>>
    /\ UNCHANGED <<nodeVars, frameVars, lockVars, fileVars>>

(* A faulty get_online_users: it returns the reply as it came.             *)
Unfiltered(users, username) == users

(* The list get_online_users returns from a reply's users.                 *)
WithoutSelf(users, username) == {user \in users : user.username # username}

(* get_online_users(), from receive_message on.                            *)
QueryReturn(c) ==
    /\ rq[c].op = "query"
    /\ rq[c].stage = "replied" \/ (rq[c].stage = "sent" /\ ~running)
    /\ answer' = Answer(c, "query",
                        IF rq[c].reply = "online_users" THEN WithoutSelf(rq[c].users, c)
                        ELSE {},
                        rq[c].reply)
    /\ removed' = {} /\ ignored' = <<>>
    /\ rq' = [rq EXCEPT ![c] = NoRequest]
    /\ UNCHANGED <<clock, online_users, running, cleanupPc, sleep_until, current_time,
                   registered, hb_running, heartbeat_threads, rnet, used>>
    /\ UNCHANGED <<nodeVars, frameVars, lockVars, fileVars>>

(* A _send_heartbeats thread of c finds running false at its loop test and *)
(* ends.                                                                   *)
HeartbeatExit(c) ==
    /\ heartbeat_threads[c] > 0
    /\ ~hb_running[c]
    /\ heartbeat_threads' = [heartbeat_threads EXCEPT ![c] = @ - 1]
    /\ Quiet
    /\ UNCHANGED <<clock, online_users, running, cleanupPc, sleep_until, current_time,
                   registered, hb_running, rq, rnet, used>>
    /\ UNCHANGED <<nodeVars, frameVars, lockVars, fileVars>>

(* One pass of a _send_heartbeats thread of c that finds running true: the *)
(* heartbeat is sent if the service listens.                               *)
HeartbeatSend(c) ==
    /\ heartbeat_threads[c] > 0
    /\ hb_running[c]
    /\ MayCall(used.beats, MaxBeats)
    /\ used' = [used EXCEPT !.beats = @ + 1]
    /\ rnet' = IF running THEN rnet (+) SetToBag({RdvMsg("heartbeat", c)}) ELSE rnet
    /\ Quiet
    /\ UNCHANGED <<clock, online_users, running, cleanupPc, sleep_until, current_time,
                   registered, hb_running, heartbeat_threads, rq>>
    /\ UNCHANGED <<nodeVars, frameVars, lockVars, fileVars>>

(* unregister(): the heartbeat loop is told to stop; the request is sent   *)
(* if the client is registered and the service listens.                    *)
Unregister(c) ==
    /\ rq[c] = NoRequest
    /\ MayCall(used.unregisters, MaxUnregisters)
    /\ used' = [used EXCEPT !.unregisters = @ + 1]
    /\ hb_running' = [hb_running EXCEPT ![c] = FALSE]
    /\ IF registered[c] /\ running
       THEN /\ rnet' = rnet (+) SetToBag({RdvMsg("unregister", c)})
            /\ registered' = [registered EXCEPT ![c] = FALSE]
       ELSE UNCHANGED <<rnet, registered>>
    /\ Quiet
    /\ UNCHANGED <<clock, online_users, running, cleanupPc, sleep_until, current_time,
                   heartbeat_threads, rq>>
    /\ UNCHANGED <<nodeVars, frameVars, lockVars, fileVars>>

(* A faulty _update_user_heartbeat: it stores last_seen whether or not the *)
(* user is registered.                                                     *)
UpdateUserHeartbeatCreates(users, username, t) ==
    IF username \in DOMAIN users THEN [users EXCEPT ![username].last_seen = t]
    ELSE Put(users, username, [address |-> LocalIp(username),
                               port |-> ListenPort[username], last_seen |-> t])

(* The users after _update_user_heartbeat, and after _unregister_user.     *)
UpdateUserHeartbeat(users, username, t) ==
    IF username \in DOMAIN users THEN [users EXCEPT ![username].last_seen = t] ELSE users

(* A faulty unregister: it empties the map.                                *)
UnregisterUserClears(users, username) == EmptyDict

UnregisterUser(users, username) ==
    IF username \in DOMAIN users THEN Del(users, username) ELSE users

(* _handle_client for a heartbeat or an unregister; a stopped service      *)
(* reads none.                                                             *)
ServerOneWay(m) ==
    /\ BagIn(m, rnet)
    /\ rnet' = rnet (-) SetToBag({m})
    /\ online_users' = IF ~running THEN online_users
                       ELSE IF m.type = "heartbeat"
                            THEN UpdateUserHeartbeat(online_users, m.username, clock)
                            ELSE UnregisterUser(online_users, m.username)
    /\ answer' = NoAnswer /\ removed' = {}
    /\ ignored' = IF running /\ m.type = "heartbeat" /\ m.username \notin DOMAIN online_users
                  THEN <<m.username>> ELSE <<>>
    /\ UNCHANGED <<clock, running, cleanupPc, sleep_until, current_time,
                   registered, hb_running, heartbeat_threads, rq, used>>
    /\ UNCHANGED <<nodeVars, frameVars, lockVars, fileVars>>

(* _cleanup_stale_users: time.sleep(30) is over, time.time() is read.      *)
CleanupWake ==
    /\ cleanupPc = "sleep"
    /\ clock >= sleep_until
    /\ current_time' = clock
    /\ cleanupPc' = "sweep"
    /\ Quiet
    /\ UNCHANGED <<clock, online_users, running, sleep_until,
                   registered, hb_running, heartbeat_threads, rq, rnet, used>>
    /\ UNCHANGED <<nodeVars, frameVars, lockVars, fileVars>>

(* A faulty sweep: it takes the difference the other way round.            *)
StaleUsersReversed(users, t) ==
    {u \in DOMAIN users : users[u].last_seen - t > StaleThreshold}

(* A faulty sweep: it removes whatever was not seen at its own reading.    *)
StaleUsersAtOnce(users, t) ==
    {u \in DOMAIN users : t - users[u].last_seen > 0}

(* The to_remove of a sweep that read the clock as t.                      *)
StaleUsers(users, t) ==
    {u \in DOMAIN users : t - users[u].last_seen > StaleThreshold}

(* _cleanup_stale_users: the sweep under the lock, then the loop test and  *)
(* the next sleep.                                                         *)
CleanupSweep ==
    /\ cleanupPc = "sweep"
    /\ LET to_remove == StaleUsers(online_users, current_time) IN
       /\ online_users' = [u \in DOMAIN online_users \ to_remove |-> online_users[u]]
       /\ removed' = to_remove
    /\ ignored' = <<>>
    /\ answer' = NoAnswer
    /\ IF running
       THEN cleanupPc' = "sleep" /\ sleep_until' = clock + SweepInterval
       ELSE cleanupPc' = "stopped" /\ UNCHANGED sleep_until
    /\ UNCHANGED <<clock, running, current_time, registered, hb_running,
                   heartbeat_threads, rq, rnet, used>>
    /\ UNCHANGED <<nodeVars, frameVars, lockVars, fileVars>>

(* stop(): the listening socket is closed; the sweep thread sees it at its *)
(* next loop test.                                                         *)
ServerStop ==
    /\ running
    /\ MayCall(used.stops, MaxStops)
    /\ used' = [used EXCEPT !.stops = @ + 1]
    /\ running' = FALSE
    /\ Quiet
    /\ UNCHANGED <<clock, online_users, cleanupPc, sleep_until, current_time,
                   registered, hb_running, heartbeat_threads, rq, rnet>>
    /\ UNCHANGED <<nodeVars, frameVars, lockVars, fileVars>>

NextRdv ==
    \/ RdvTick
    \/ \E c \in Clients : \E message \in Registers(c) : RegisterSend(c, message)
    \/ \E c \in Clients : ServerRegister(c)
    \/ \E c \in Clients : RegisterReturn(c)
    \/ \E c \in Clients : QuerySend(c)
    \/ \E c \in Clients : ServerQuery(c)
    \/ \E c \in Clients : QueryReturn(c)
    \/ \E c \in Clients : HeartbeatSend(c)
    \/ \E c \in Clients : HeartbeatExit(c)
    \/ \E c \in Clients : Unregister(c)
    \/ \E m \in DOMAIN rnet : ServerOneWay(m)
    \/ CleanupWake
    \/ CleanupSweep
    \/ ServerStop

-----------------------------------------------------------------------------
-----------------------------------------------------------------------------
(* The locks.  P2PChat.lock (p2p_chat.py 60) and PresenceServer.lock are   *)
(* threading.Lock objects: one holder at a time, and not reentrant.  Each  *)
(* thread below is the code path of one function, one entry per statement  *)
(* that takes or releases the lock, calls the network, or works locally;   *)
(* "to" holds the entries that can come next.                              *)

Free == "free"

Threads == {"request_peers", "broadcast", "monitor", "disconnect", "query"}

(* The lock a thread's code uses: self.lock of the node, or of the service. *)
LockOf(t) == IF t = "query" THEN "server" ELSE "node"

(* The calls that go to the network. *)
NetworkOps == {"connect", "send", "receive"}

Op(op, line, to) == [op |-> op, line |-> line, to |-> to]

(* The request_peers handler, sending its reply before it leaves the       *)
(* with-block.                                                             *)
ProgramHolding(t) ==
    <<Op("receive", 129, {2}), Op("acquire", 200, {3}), Op("local", 201, {4}),
      Op("send", 205, {5}), Op("release", 204, {1})>>

(* The statements of each thread, by line.  In the monitor the status      *)
(* callback runs inside the with-block (358-359, 375-376); with the peers  *)
(* window open it reaches show_peers, which takes the same lock again      *)
(* (chat.py 750) and so never returns: entry 19.                           *)
Program(t) ==
    CASE t = "request_peers" ->
           <<Op("receive", 129, {2}), Op("acquire", 200, {3}),
             Op("local", 201, {4}), Op("release", 204, {5}),
             Op("send", 205, {1})>>
      [] t = "broadcast" ->
           <<Op("acquire", 232, {2}), Op("local", 233, {3}),
             Op("release", 233, {4}), Op("local", 236, {5, 11}),
             Op("connect", 239, {6, 8}), Op("send", 240, {7}),
             Op("local", 241, {4}), Op("acquire", 245, {9}),
             Op("local", 246, {10}), Op("release", 247, {4}),
             Op("local", 247, {1})>>
      [] t = "monitor" ->
           <<Op("local", 329, {2}), Op("acquire", 331, {3}),
             Op("local", 332, {4}), Op("release", 332, {5}),
             Op("local", 335, {6, 18}), Op("connect", 344, {7, 13}),
             Op("send", 345, {8}), Op("local", 349, {9}),
             Op("acquire", 352, {10}), Op("local", 353, {11, 12}),
             Op("local", 359, {12, 19}), Op("release", 359, {5}),
             Op("acquire", 363, {14}), Op("local", 364, {15, 17}),
             Op("local", 372, {16}), Op("local", 376, {17, 19}),
             Op("release", 376, {5}), Op("local", 378, {1}),
             Op("acquire", 750, {19})>>
      [] t = "disconnect" ->
           <<Op("acquire", 387, {2}), Op("local", 388, {3}),
             Op("release", 388, {4}), Op("local", 390, {5, 8}),
             Op("connect", 393, {6, 4}), Op("send", 394, {7}),
             Op("local", 395, {4}), Op("local", 400, {})>>
      [] t = "query" ->
           <<Op("receive", 104, {2}), Op("acquire", 161, {3}),
             Op("local", 162, {4}), Op("release", 165, {5}),
             Op("send", 167, {6}), Op("local", 122, {1})>>

(* The statement thread t is about to run. *)
Current(t) == Program(t)[at[t]]

InitLock ==
    /\ lock = [l \in {"node", "server"} |-> Free]
    /\ at = [t \in Threads |-> 1]

(* "with self.lock:" entered: the thread waits until the lock is free. *)
Acquire(t) ==
    /\ Current(t).op = "acquire"
    /\ lock[LockOf(t)] = Free
    /\ lock' = [lock EXCEPT ![LockOf(t)] = t]
    /\ \E p \in Current(t).to : at' = [at EXCEPT ![t] = p]
    /\ UNCHANGED <<nodeVars, frameVars, rdvVars, fileVars>>

(* The with-block left. *)
Release(t) ==
    /\ Current(t).op = "release"
    /\ lock' = [lock EXCEPT ![LockOf(t)] = IF @ = t THEN Free ELSE @]
    /\ \E p \in Current(t).to : at' = [at EXCEPT ![t] = p]
    /\ UNCHANGED <<nodeVars, frameVars, rdvVars, fileVars>>

(* A network call: it ends, well or with an exception, whenever the other  *)
(* side and the network let it.                                            *)
NetworkCall(t) ==
    /\ Current(t).op \in NetworkOps
    /\ \E p \in Current(t).to : at' = [at EXCEPT ![t] = p]
    /\ UNCHANGED <<lock, nodeVars, frameVars, rdvVars, fileVars>>

(* Any other statement. *)
LocalStep(t) ==
    /\ Current(t).op = "local"
    /\ \E p \in Current(t).to : at' = [at EXCEPT ![t] = p]
    /\ UNCHANGED <<lock, nodeVars, frameVars, rdvVars, fileVars>>

NextLock ==
    \/ \E t \in Threads : Acquire(t)
    \/ \E t \in Threads : Release(t)
    \/ \E t \in Threads : NetworkCall(t)
    \/ \E t \in Threads : LocalStep(t)

-----------------------------------------------------------------------------
(* file_transfer.py: one file sent with send_file, and the receiver's      *)
(* handle_incoming_file_chunk. Every chunk goes out on a connection of its *)
(* own (_send_message_to_peer), and the receiver's accept loop hands every *)
(* connection to a thread of its own (p2p_chat.py 107-112), so the chunks  *)
(* are handled by threads that share incoming_transfers and take no lock.  *)

(* The files: up to MaxChunks chunks of CHUNK_SIZE bytes, each chunk one   *)
(* of two contents. The empty file has no chunk.                           *)
ChunkContents == {1, 2}
Files == UNION {[1..k -> ChunkContents] : k \in 0..MaxChunks}

(* The _send_chunk calls of a file: one per chunk and the empty last one.  *)
ChunkIds == 1..(MaxChunks + 1)

(* uuid.uuid4() of the one transfer. *)
TransferId == "transfer"

(* The is_last and data fields of the i-th _send_chunk call. *)
IsLast(i) == i = Len(file_data) + 1
ChunkData(i) == IF i <= Len(file_data) THEN <<file_data[i]>> ELSE <<>>

InitFile ==
    /\ file_data = <<>>
    /\ fpc = "idle"
    /\ send_pos = 0
    /\ chunk_threads = [i \in ChunkIds |-> "none"]
    /\ incoming_transfers = EmptyDict
    /\ saved_files = <<>>

(* select_file and the head of send_file: the user picks a file.           *)
SelectFile(f) ==
    /\ fpc = "idle"
    /\ file_data' = f
    /\ fpc' = "read"
    /\ UNCHANGED <<send_pos, chunk_threads, incoming_transfers, saved_files>>
    /\ UNCHANGED <<nodeVars, frameVars, rdvVars, lockVars>>

(* One turn of send_file's loop: f.read, then _send_chunk connects, sends  *)
(* and closes; the receiver has accepted the connection and started the    *)
(* thread that reads the message. After the empty last chunk the loop ends.*)
SendChunk ==
    /\ fpc = "read"
    /\ LET i == send_pos + 1 IN
       /\ send_pos' = i
       /\ chunk_threads' = [chunk_threads EXCEPT ![i] = "received"]
       /\ fpc' = IF IsLast(i) THEN "sent" ELSE "read"
    /\ UNCHANGED <<file_data, incoming_transfers, saved_files>>
    /\ UNCHANGED <<nodeVars, frameVars, rdvVars, lockVars>>

(* incoming_transfers after the test "transfer_id not in                   *)
(* self.incoming_transfers" and the entry it creates.                      *)
EnterTransfer(transfers, id) ==
    IF id \in DOMAIN transfers THEN transfers ELSE Put(transfers, id, [data |-> <<>>])

(* handle_incoming_file_chunk of chunk i, up to the entry being there.     *)
ChunkEnter(i) ==
    /\ chunk_threads[i] = "received"
    /\ incoming_transfers' = EnterTransfer(incoming_transfers, TransferId)
    /\ chunk_threads' = [chunk_threads EXCEPT ![i] = "entered"]
    /\ UNCHANGED <<file_data, fpc, send_pos, saved_files>>
    /\ UNCHANGED <<nodeVars, frameVars, rdvVars, lockVars>>

(* data.extend(data_chunk). If the thread of the last chunk has deleted    *)
(* the entry meanwhile, the lookup raises KeyError, the except clause      *)
(* prints it and the chunk is gone.                                        *)
ChunkExtend(i) ==
    /\ chunk_threads[i] = "entered"
    /\ IF TransferId \in DOMAIN incoming_transfers
       THEN /\ incoming_transfers' =
                   [incoming_transfers EXCEPT ![TransferId].data = @ \o ChunkData(i)]
            /\ chunk_threads' = [chunk_threads EXCEPT
                                    ![i] = IF IsLast(i) THEN "extended" ELSE "done"]
       ELSE /\ UNCHANGED incoming_transfers
            /\ chunk_threads' = [chunk_threads EXCEPT ![i] = "failed"]
    /\ UNCHANGED <<file_data, fpc, send_pos, saved_files>>
    /\ UNCHANGED <<nodeVars, frameVars, rdvVars, lockVars>>

(* The is_last branch: the data gathered so far is written to the          *)
(* downloads folder and the entry is deleted.                              *)
ChunkSave(i) ==
    /\ chunk_threads[i] = "extended"
    /\ saved_files' = Append(saved_files, incoming_transfers[TransferId].data)
    /\ incoming_transfers' = Del(incoming_transfers, TransferId)
    /\ chunk_threads' = [chunk_threads EXCEPT ![i] = "done"]
    /\ UNCHANGED <<file_data, fpc, send_pos>>
    /\ UNCHANGED <<nodeVars, frameVars, rdvVars, lockVars>>

NextFile ==
    \/ \E f \in Files : SelectFile(f)
    \/ SendChunk
    \/ \E i \in ChunkIds : ChunkEnter(i)
    \/ \E i \in ChunkIds : ChunkExtend(i)
    \/ \E i \in ChunkIds : ChunkSave(i)

(* The specifications: the nodes, the framing of one connection, and the   *)
(* rendezvous service with its clients.                                    *)
Init == InitNode /\ InitFrame /\ InitRdv /\ InitLock /\ InitFile

Spec == Init /\ [][NextNode]_vars

SpecFrame == Init /\ [][NextFrame]_vars

SpecRdv == Init /\ [][NextRdv]_vars

SpecLock == Init /\ [][NextLock]_vars

SpecFile == Init /\ [][NextFile]_vars

(* A node shuts down: the nodes without broadcasts and foreign endpoints,  *)
(* with the accept thread's exit, and with every thread of a running       *)
(* process scheduled again and again.                                      *)
NextShutdown ==
    \/ Tick
    \/ \E j \in Nodes \ Seeds, a \in Seeds : JoinStart(j, a)
    \/ \E a, j \in Nodes : HandleJoin(a, j)
    \/ \E a, j \in Nodes : SendWelcome(a, j)
    \/ \E j \in Nodes : JoinRecvWelcome(j)
    \/ \E j \in Nodes : JoinNoWelcome(j)
    \/ \E a, j \in Nodes : HandleRequestPeers(a, j)
    \/ \E j \in Nodes : JoinRecvPeerList(j)
    \/ \E j \in Nodes : JoinNoPeerList(j)
    \/ \E a, j \in Nodes : HandlerExit(a, j)
    \/ \E n \in Nodes : \E m \in DOMAIN net : HandleMessage(n, m)
    \/ \E n \in Nodes : \E m \in DOMAIN net : DropMessage(n, m)
    \/ \E n \in Nodes : MonitorStart(n)
    \/ \E n \in Nodes : MonitorStop(n)
    \/ \E n \in Nodes, u \in Names :
          \E result \in {"sent", "reset", "timeout", "refused"} : MonitorProbe(n, u, result)
    \/ \E n \in Nodes : MonitorWrite(n)
    \/ \E n \in Nodes : DisconnectStart(n)
    \/ \E n \in Nodes, u \in Names : \E result \in {"sent", "reset", "refused"} :
          DisconnectSend(n, u, result)
    \/ \E n \in Nodes : DisconnectClose(n)
    \/ \E n \in Nodes : AcceptStop(n)
    \/ \E n \in Nodes : Crash(n)

FairShutdown ==
    \A n \in Nodes :
        /\ WF_vars(\E u \in Names : \E result \in {"sent", "reset", "refused"} :
                      DisconnectSend(n, u, result))
        /\ WF_vars(DisconnectClose(n))
        /\ WF_vars(AcceptStop(n))
        /\ WF_vars(MonitorStop(n))
        /\ WF_vars(\E u \in Names : \E result \in {"sent", "reset", "timeout", "refused"} :
                      MonitorProbe(n, u, result))
        /\ WF_vars(MonitorWrite(n))
        /\ WF_vars(\E m \in DOMAIN net : HandleMessage(n, m) \/ DropMessage(n, m))

SpecShutdown == Init /\ [][NextShutdown]_vars /\ FairShutdown

(* Three nodes that keep running and can reach one another: every process  *)
(* is started, none crashes or disconnects, every connect and send gets    *)
(* through and every reply comes in time; the clock goes on and every      *)
(* thread is scheduled again and again.                                    *)
InitGossip == InitNodes(Nodes) /\ InitFrame /\ InitRdv /\ InitLock /\ InitFile

NextGossip ==
    \/ Tick
    \/ \E j \in Nodes \ Seeds, a \in Seeds : JoinStart(j, a)
    \/ \E a, j \in Nodes : HandleJoin(a, j)
    \/ \E a, j \in Nodes : SendWelcome(a, j)
    \/ \E j \in Nodes : JoinRecvWelcome(j)
    \/ \E a, j \in Nodes : HandleRequestPeers(a, j)
    \/ \E j \in Nodes : JoinRecvPeerList(j)
    \/ \E n \in Nodes : \E m \in DOMAIN net : HandleMessage(n, m)
    \/ \E n \in Nodes : MonitorStart(n)
    \/ \E n \in Nodes, u \in Names : MonitorProbe(n, u, "sent")
    \/ \E n \in Nodes : MonitorWrite(n)

FairGossip ==
    /\ WF_vars(Tick)
    /\ \A n \in Nodes :
          /\ WF_vars(\E j \in Nodes : HandleJoin(n, j))
          /\ WF_vars(\E j \in Nodes : SendWelcome(n, j))
          /\ WF_vars(\E j \in Nodes : HandleRequestPeers(n, j))
          /\ WF_vars(JoinRecvWelcome(n))
          /\ WF_vars(JoinRecvPeerList(n))
          /\ WF_vars(\E m \in DOMAIN net : HandleMessage(n, m))
          /\ WF_vars(MonitorStart(n))
          /\ WF_vars(\E u \in Names : MonitorProbe(n, u, "sent"))
          /\ WF_vars(MonitorWrite(n))

SpecGossip == InitGossip /\ [][NextGossip]_vars /\ FairGossip

(* A user who comes back under the same username from another address or   *)
(* port while a broadcast is under way: joins from outside, broadcasts,    *)
(* the chats they deliver, the clock and a crash.                          *)
NextRejoin ==
    \/ Tick
    \/ \E a, n \in Nodes, u \in Names :
          HandleJoinFrom(a, u, Host[n], ListenPort[n])
    \/ \E n \in Nodes : BroadcastStart(n)
    \/ \E n \in Nodes, u \in Names : \E result \in {"sent", "reset", "refused"} :
          BroadcastSend(n, u, result)
    \/ \E n \in Nodes : \E m \in DOMAIN net : HandleMessage(n, m)
    \/ \E n \in Nodes : Crash(n)

SpecRejoin == Init /\ [][NextRejoin]_vars

(* A peer that is unreachable for a while and reachable again: a joiner    *)
(* and the seed it joined both keep running, the seed's monitor probes the *)
(* joiner, a connect may time out, and every thread of the seed and every  *)
(* handler is scheduled again and again.                                   *)
NextRecover ==
    \/ Tick
    \/ \E j \in Nodes \ Seeds, a \in Seeds : JoinStart(j, a)
    \/ \E a, j \in Nodes : HandleJoin(a, j)
    \/ \E a, j \in Nodes : SendWelcome(a, j)
    \/ \E j \in Nodes : JoinRecvWelcome(j)
    \/ \E a, j \in Nodes : HandleRequestPeers(a, j)
    \/ \E j \in Nodes : JoinRecvPeerList(j)
    \/ \E n \in Nodes : \E m \in DOMAIN net : HandleMessage(n, m)
    \/ \E n \in Seeds : MonitorStart(n)
    \/ \E n \in Seeds, u \in Names : \E result \in {"sent", "timeout"} :
          MonitorProbe(n, u, result)
    \/ \E n \in Seeds : MonitorWrite(n)

FairRecover ==
    /\ \A n \in Nodes : WF_vars(\E m \in DOMAIN net : HandleMessage(n, m))
    /\ \A n \in Seeds :
          /\ WF_vars(MonitorStart(n))
          /\ WF_vars(\E u \in Names : \E result \in {"sent", "timeout"} :
                        MonitorProbe(n, u, result))
          /\ WF_vars(MonitorWrite(n))

SpecRecover == Init /\ [][NextRecover]_vars /\ FairRecover

-----------------------------------------------------------------------------
(* Properties of the nodes.                                                *)

(* The step in which joiner j stores the acceptor of its welcome.          *)
RecordsAcceptor(j) == jc[j].jside = "wait_welcome" /\ jc'[j].jside = "wait_list"

(* Node n holds username u as an online peer at address and port.          *)
HoldsOnline(r, u, address, port) ==
    /\ u \in DOMAIN r
    /\ r[u].address = address /\ r[u].port = port /\ r[u].status = "online"

(* Node n holds username u at address and port, online or offline.         *)
Holds(r, u, address, port) ==
    /\ u \in DOMAIN r
    /\ r[u].address = address /\ r[u].port = port

C2_FailureWithoutWelcome ==
    returned.value # "none" => (returned.value = "true" <=> returned.reply = "welcome")

(* C3: no registry holds an entry under its own node's username.           *)
C3_NoSelfEntry == \A n \in Nodes : n \notin DOMAIN peers[n]

(* The step is node n's leave handler running for username u.              *)
LeaveHandled(n, u) ==
    /\ alive[n] /\ alive'[n] /\ connected[n]
    /\ \E m \in DOMAIN net :
          /\ m = Msg(n, "leave", u)
          /\ net' = net (-) SetToBag({m})

(* C4: an entry that a failed probe marked offline leaves the registry of  *)
(* a running node only when a leave of that peer is handled.               *)
C4_OfflineEntryKeptUntilLeave ==
    [][\A n \in Nodes : \A u \in DOMAIN peers[n] :
          (alive'[n] /\ peers[n][u].status = "offline" /\ u \notin DOMAIN peers'[n])
              => LeaveHandled(n, u)]_vars

(* The step is node n's heartbeat handler running for username u.          *)
HeartbeatHandled(n, u) ==
    /\ alive[n] /\ alive'[n] /\ connected[n]
    /\ \E m \in DOMAIN net :
          /\ m = Msg(n, "heartbeat", u)
          /\ net' = net (-) SetToBag({m})

AnswersRequest(j) == jc[j].stage = "req_sent" /\ jc'[j].stage = "list_sent"

(* The triples of list under username u.                                   *)
TriplesOf(list, u) == {t \in list : t.username = u}

(* C6 as stated: the peer_list holds one triple per registry entry, none   *)
(* for the responder and none for the requester.                           *)
C6_ListExcludesRequester ==
    [][\A j \in Nodes : AnswersRequest(j) =>
          LET a == jc[j].to
              list == jc'[j].list
          IN /\ \A u \in DOMAIN peers[a] \ {a, j} : Cardinality(TriplesOf(list, u)) = 1
             /\ TriplesOf(list, a) = {}
             /\ TriplesOf(list, j) = {}]_vars

(* C6 as the code has it: the peer_list holds exactly one triple, with the *)
(* entry's address and port, per entry of the responder's registry at the  *)
(* time of the request, the requester's own entry included, and no other.  *)
C6_ListIsRegistry ==
    [][\A j \in Nodes : AnswersRequest(j) =>
          LET a == jc[j].to
              list == jc'[j].list
          IN /\ \A u \in DOMAIN peers[a] :
                   TriplesOf(list, u) = {[username |-> u, address |-> peers[a][u].address,
                                          port |-> peers[a][u].port]}
             /\ \A t \in list : t.username \in DOMAIN peers[a]]_vars

(* C6's case: a reply to another node's request_peers is on its way and    *)
(* holds the requester's own triple.                                       *)
C6_Witness ==
    \E j \in Nodes :
        /\ jc[j].stage = "list_sent" /\ jc[j].to # j
        /\ TriplesOf(jc[j].list, j) # {}

(* The step is a turn of node n's broadcast loop for the snapshot's entry   *)
(* u; its send failed when no chat went out.                               *)
BroadcastTurn(n, u) ==
    alive'[n] /\ u \in DOMAIN bcQueue[n] /\ u \notin DOMAIN bcQueue'[n]

(* C11: broadcast takes a snapshot of the whole registry and sends the     *)
(* chat to each of its peers, online or offline; a peer the send to which  *)
(* failed, at the connect or while writing, is removed from the registry   *)
(* and the failure is logged; a peer the chat was sent to is left as it    *)
(* was.                                                                    *)
C11_BroadcastRemovesFailed ==
    [][\A n \in Nodes :
          /\ (ui[n] = "idle" /\ ui'[n] = "bcast") => bcQueue'[n] = peers[n]
          /\ \A u \in DOMAIN bcQueue[n] : BroadcastTurn(n, u) =>
                IF net' = net
                THEN /\ u \notin DOMAIN peers'[n]
                     /\ logged' = <<SendError(n, u)>>
                     /\ \A v \in DOMAIN peers[n] \ {u} :
                           v \in DOMAIN peers'[n] /\ peers'[n][v] = peers[n][v]
                ELSE /\ peers'[n] = peers[n]
                     /\ logged' = <<>>]_vars

(* The steps of node n's disconnect(): its start, a turn of its loop for    *)
(* the snapshot's entry u, and its end.                                     *)
DisconnectStarts(n) == ui[n] = "idle" /\ ui'[n] = "disc"
DisconnectTurn(n, u) == alive'[n] /\ u \in DOMAIN dcQueue[n] /\ u \notin DOMAIN dcQueue'[n]
DisconnectEnds(n) == ui[n] = "disc" /\ ui'[n] = "closed" /\ alive'[n]

(* Node n's accept loop and monitor loop have ended, and its listening     *)
(* socket is closed.                                                       *)
ShutDown(n) ==
    /\ ui[n] = "closed" /\ ~connected[n] /\ ~sockOpen[n]
    /\ acceptPc[n] = "stopped" /\ hbPc[n] = "stopped"

C14_UnknownHeartbeatIgnored ==
    [][\A n \in Nodes : \A u \in Names : HeartbeatHandled(n, u) =>
          /\ DOMAIN peers'[n] = DOMAIN peers[n]
          /\ u \notin DOMAIN peers[n] => (peers'[n] = peers[n] /\ emitted' = <<>>)]_vars

(* C14's case: a running node has just handled a heartbeat from a username *)
(* its registry does not hold.                                             *)
C14_Witness ==
    \E n \in Nodes : \E u \in Names :
        /\ skipped = <<Skip(n, u, "heartbeat")>>
        /\ u \notin DOMAIN peers[n]
        /\ alive[n] /\ connected[n]

(* The steps that store an entry for username u at node n: the join        *)
(* handler for u's join, join_network on u's welcome, and the merge of a   *)
(* peer_list that names u.                                                 *)
JoinHandledFrom(n, u) ==
    jc[u].to = n /\ jc[u].stage = "join_sent" /\ jc'[u].stage = "upserted"
WelcomeStoredFrom(n, u) == RecordsAcceptor(n) /\ jc[n].to = u
MergedWith(n, u) ==
    jc[n].stage = "list_sent" /\ jc'[n] = NoConn /\ alive'[n] /\ TriplesOf(jc[n].list, u) # {}

(* The steps of node n that handle a chat of u and that write the result   *)
(* of a probe of u.                                                        *)
ChatHandled(n, u) ==
    /\ alive[n] /\ alive'[n] /\ connected[n]
    /\ \E m \in DOMAIN net :
          /\ m = Msg(n, "chat", u)
          /\ net' = net (-) SetToBag({m})
ProbeWritten(n, u) ==
    /\ hbPc[n] \in {"write_ok", "write_fail"} /\ hbCur[n].peer = u
    /\ hbCur'[n] = NoProbe /\ alive'[n]

(* A step gives node n an entry for u that it did not hold.                *)
Appears(n, u) == u \notin DOMAIN peers[n] /\ u \in DOMAIN peers'[n]

(* C15 as stated: after node n has handled a leave of u, u is absent, and  *)
(* an entry for u appears again only by a join from u or by the merge of a *)
(* peer_list that names u.                                                 *)
C15_AbsentUntilJoinOrList ==
    [][\A n \in Nodes : \A u \in Names :
          /\ LeaveHandled(n, u) => u \notin DOMAIN peers'[n]
          /\ (u \in departed[n] /\ Appears(n, u)) =>
                (JoinHandledFrom(n, u) \/ MergedWith(n, u))]_vars

(* C15 as the code has it: the same, with n's own join_network storing u   *)
(* on u's welcome as the third way back; a heartbeat or a chat of u and    *)
(* the result of a probe of u, successful or not, leave u absent.          *)
C15_AbsentUntilStoredAgain ==
    [][\A n \in Nodes : \A u \in Names :
          /\ LeaveHandled(n, u) => u \notin DOMAIN peers'[n]
          /\ (u \in departed[n] /\ Appears(n, u)) =>
                (JoinHandledFrom(n, u) \/ MergedWith(n, u) \/ WelcomeStoredFrom(n, u))
          /\ (u \notin DOMAIN peers[n]
                 /\ (HeartbeatHandled(n, u) \/ ChatHandled(n, u) \/ ProbeWritten(n, u)))
                => u \notin DOMAIN peers'[n]]_vars

(* C15's case: the result of a probe of a peer that left while the probe   *)
(* was under way has just been written and found no entry.                 *)
C15_Witness ==
    \E n \in Nodes : \E u \in Names :
        /\ skipped = <<Skip(n, u, "monitor")>>
        /\ u \in departed[n]
        /\ u \notin DOMAIN peers[n]

(* The status_callback calls of a step at node n for peer u with `status`. *)
Calls(events, n, u, status) ==
    {i \in 1..Len(events) :
        events[i].at = n /\ events[i].username = u /\ events[i].status = status}

(* C19: when the probe of an entry fails, by a refused connect, a connect  *)
(* that times out or a reset while the heartbeat is sent, the write sets   *)
(* the status offline and leaves address, port and last_seen as they were, *)
(* the entry stays, and status_callback(u, "offline") is called exactly    *)
(* when the status before the write was not offline.                       *)
C19_FailedProbeMarksOffline ==
    [][\A n \in Nodes : \A u \in Names :
          (/\ ProbeWritten(n, u)
           /\ hbCur[n].result \in {"refused", "timeout", "reset"}
           /\ u \in DOMAIN peers[n])
          => /\ u \in DOMAIN peers'[n]
             /\ peers'[n][u] = [peers[n][u] EXCEPT !.status = "offline"]
             /\ Calls(emitted', n, u, "online") = {}
             /\ Calls(emitted', n, u, "offline") # {} <=> peers[n][u].status # "offline"]_vars

(* C20: when the probe of an entry succeeds, the write sets last_seen to   *)
(* the clock and the status online, and status_callback(u, "online") is    *)
(* called only if the status just before the write was not online; and no  *)
(* step that calls status_callback(u, "online") is followed at once by     *)
(* another that does.                                                      *)
C20_OnlineEventOnlyOnChange ==
    [][\A n \in Nodes : \A u \in Names :
          /\ (/\ ProbeWritten(n, u)
              /\ hbCur[n].result = "sent"
              /\ u \in DOMAIN peers[n])
             => /\ u \in DOMAIN peers'[n]
                /\ peers'[n][u] = [peers[n][u] EXCEPT !.last_seen = now, !.status = "online"]
                /\ Calls(emitted', n, u, "online") # {} => peers[n][u].status # "online"
          /\ ~(Calls(emitted, n, u, "online") # {} /\ Calls(emitted', n, u, "online") # {})]_vars

(* Nodes b and c are both in a join_network call to node a.                *)
JoiningTogether(a, b, c) ==
    /\ jc[b].to = a /\ jc[b].jside # "idle"
    /\ jc[c].to = a /\ jc[c].jside # "idle"

(* C18: when two nodes are joining the same node at the same time, and     *)
(* all three keep running and reachable, then after the monitor cycles and *)
(* heartbeats that follow each of the two holds an entry for the other.    *)
C18_JoinersLearnEachOther ==
    \A a \in Seeds : \A b, c \in Nodes \ Seeds :
        b # c => (JoiningTogether(a, b, c)
                    ~> (c \in DOMAIN peers[b] /\ b \in DOMAIN peers[c]))

(* The status of u's entry at node n goes from `from` to `to` in a step.   *)
StatusGoes(n, u, from, to) ==
    /\ u \in DOMAIN peers[n] /\ peers[n][u].status = from
    /\ u \in DOMAIN peers'[n] /\ peers'[n][u].status = to

(* The monitor of n writes the result of a probe of u that failed, and of  *)
(* one that ran as a success.                                              *)
FailedProbeWritten(n, u) == ProbeWritten(n, u) /\ hbPc[n] = "write_fail"
GoodProbeWritten(n, u) == ProbeWritten(n, u) /\ hbPc[n] = "write_ok"

(* C21: the status of an entry goes from online to offline only in the     *)
(* monitor's write after a failed probe of that peer; no handler,          *)
(* broadcast, join_network or disconnect writes offline.                   *)
C21_OfflineOnlyByFailedProbe ==
    [][\A n \in Nodes : \A u \in Names :
          StatusGoes(n, u, "online", "offline") =>
             /\ FailedProbeWritten(n, u)
             /\ hbCur[n].result \in {"refused", "timeout"}]_vars

(* C21's case: a monitor has just marked an online entry offline.          *)
C21_Witness ==
    \E n \in Nodes : \E u \in Names :
        /\ Calls(emitted, n, u, "offline") # {}
        /\ u \in DOMAIN peers[n] /\ peers[n][u].status = "offline"
        /\ alive[n] /\ connected[n]

(* The heartbeat handler of n runs for a heartbeat of u; its join handler  *)
(* stores u.                                                               *)
JoinStored(n, u) == JoinHandledFrom(n, u) /\ alive'[n]

(* C22: the status of an entry goes from offline to online only in the     *)
(* monitor's write after a successful probe of that peer, in the heartbeat *)
(* handler for a heartbeat of that peer and in the join handler for a join *)
(* of that peer; the merge of a peer_list leaves an offline entry offline. *)
C22_OnlineOnlyByProbeHeartbeatJoin ==
    [][\A n \in Nodes : \A u \in Names :
          /\ StatusGoes(n, u, "offline", "online") =>
                \/ GoodProbeWritten(n, u) /\ hbCur[n].result = "sent"
                \/ HeartbeatHandled(n, u)
                \/ JoinStored(n, u)
          /\ (MergedWith(n, u) /\ u \in DOMAIN peers[n] /\ peers[n][u].status = "offline")
                => peers'[n][u].status = "offline"]_vars

(* The steps of node n's monitor: a cycle starts, and u is probed.         *)
CycleStarts(n) == hbPc[n] = "sleep" /\ hbPc'[n] = "scan"
Probed(n, u) == hbPc[n] = "scan" /\ hbCur[n] = NoProbe /\ hbCur'[n].peer = u

(* C23: a cycle of the monitor takes up for probing exactly the entries    *)
(* whose last_seen is more than 15 s before the cycle's start, nothing is  *)
(* taken up later in the cycle, a probe goes only to an entry taken up,    *)
(* and the write after a probe changes no other entry: an entry at most    *)
(* 15 s old gets no probe and is not modified by the cycle.                *)
C23_OnlyStaleEntriesProbed ==
    [][\A n \in Nodes :
          /\ CycleStarts(n) =>
                hbQueue'[n] = [u \in {x \in DOMAIN peers[n] :
                                         now - peers[n][x].last_seen > StaleAfter}
                                  |-> peers[n][u]]
          /\ ~CycleStarts(n) => DOMAIN hbQueue'[n] \subseteq DOMAIN hbQueue[n]
          /\ \A u \in Names :
                /\ Probed(n, u) => u \in DOMAIN hbQueue[n]
                /\ ProbeWritten(n, u) =>
                      \A x \in DOMAIN peers[n] \ {u} :
                          x \in DOMAIN peers'[n] /\ peers'[n][x] = peers[n][x]]_vars

(* C23's case: a cycle has begun with one entry to probe, and another      *)
(* entry, not older than 15 s, is left out of it.                          *)
C23_Witness ==
    \E n \in Nodes : \E x \in DOMAIN peers[n] :
        /\ hbPc[n] = "scan" /\ hbCur[n] = NoProbe
        /\ DOMAIN hbQueue[n] # {} /\ x \notin DOMAIN hbQueue[n]
        /\ now - peers[n][x].last_seen <= StaleAfter
        /\ \A u \in DOMAIN hbQueue[n] :
              u \in DOMAIN peers[n] /\ peers[n][u] = hbQueue[n][u]

(* The stage of joiner j's connection moves on to `stage` in a step.       *)
StageBecomes(j, stage) == jc[j].stage # stage /\ jc'[j].stage = stage

(* join_network of j returns having had no welcome; it receives the        *)
(* peer_list.                                                              *)
ReturnsUnwelcomed(j) == returned'.node = j /\ returned'.reply # "welcome"
ReceivesList(j) ==
    /\ jc[j].stage = "list_sent" /\ jc'[j] = NoConn
    /\ emitted' = <<Event(j, jc[j].to, "online", "join_network")>>

(* C24: on the one connection of a join_network call the join is handled   *)
(* before the welcome is sent, request_peers is sent only by a joiner that *)
(* has received the welcome, and the peer_list answers that request; a     *)
(* call that got no welcome sends no request_peers and merges nothing; and *)
(* the merge stores every listed triple but the joiner's own as online     *)
(* with last_seen now, and changes nothing else.                           *)
C24_JoinIsOneOrderedExchange ==
    [][\A j \in Nodes :
          /\ StageBecomes(j, "upserted") => jc[j].stage = "join_sent" /\ jc'[j].to = jc[j].to
          /\ StageBecomes(j, "welcome_sent") => jc[j].stage = "upserted" /\ jc'[j].to = jc[j].to
          /\ StageBecomes(j, "req_sent") =>
                /\ jc[j].stage = "welcome_sent" /\ jc[j].jside = "wait_welcome"
                /\ jc'[j].to = jc[j].to /\ alive[j]
          /\ StageBecomes(j, "list_sent") => jc[j].stage = "req_sent" /\ jc'[j].to = jc[j].to
          /\ ReturnsUnwelcomed(j) =>
                /\ peers'[j] = peers[j]
                /\ jc'[j].stage \notin {"req_sent", "list_sent"}
          /\ ReceivesList(j) =>
                /\ \A p \in jc[j].list : p.username # j =>
                      /\ p.username \in DOMAIN peers'[j]
                      /\ peers'[j][p.username] =
                            [address |-> p.address, port |-> p.port,
                             last_seen |-> now, status |-> "online"]
                /\ \A u \in Names : (u = j \/ TriplesOf(jc[j].list, u) = {}) =>
                      /\ u \in DOMAIN peers'[j] <=> u \in DOMAIN peers[j]
                      /\ u \in DOMAIN peers[j] => peers'[j][u] = peers[j][u]]_vars

(* C24's case: a join_network call has just merged a peer_list that named  *)
(* the joiner and another node, and holds the other node and not itself.   *)
C24_Witness ==
    \E j \in Nodes : \E a \in Nodes \ {j} :
        /\ returned = Return(j, "true", "welcome")
        /\ emitted = <<Event(j, a, "online", "join_network")>>
        /\ j \in DOMAIN peers[a]
        /\ a \in DOMAIN peers[j] /\ peers[j][a].last_seen = now
        /\ j \notin DOMAIN peers[j]

(* Node n's handler runs for a chat, a file chunk or a message of a type it *)
(* does not know.                                                          *)
OtherHandled(n) ==
    /\ alive[n] /\ alive'[n] /\ connected[n]
    /\ \E m \in DOMAIN net :
          /\ m.to = n
          /\ m.type \in {"chat"} \cup OtherTypes
          /\ net' = net (-) SetToBag({m})

(* C30: handling a chat, a file chunk or a message of an unknown type      *)
(* leaves every registry as it was and calls no status callback.           *)
C30_OtherMessagesLeaveRegistry ==
    [][\A n \in Nodes : OtherHandled(n) => peers' = peers /\ emitted' = <<>>]_vars

(* A node whose registry holds an offline entry has just handled a file    *)
(* chunk, or a message of an unknown type, from that peer.                 *)
C30_Witness ==
    \E n \in Nodes, u \in Names, type \in OtherTypes :
        /\ u # n
        /\ logged = <<Shown(n, type, u)>>
        /\ u \in DOMAIN peers[n]
        /\ peers[n][u].status = "offline"

(* C31: as long as an entry stays in a registry its last_seen never goes   *)
(* back, whichever of the join handler, the heartbeat handler, the welcome *)
(* branch, the peer_list merge and the monitor writes it, and so in        *)
(* particular while its status is online.                                  *)
C31_LastSeenNeverDecreases ==
    [][\A n \in Nodes : \A u \in DOMAIN peers[n] \cap DOMAIN peers'[n] :
          peers'[n][u].last_seen >= peers[n][u].last_seen]_vars

(* A handler has written, at a later reading of the clock, an entry that   *)
(* the monitor cycle under way at its node copied as stale and has still   *)
(* to probe.                                                               *)
C31_Witness ==
    \E n \in Nodes, u \in Names :
        /\ hbPc[n] = "scan"
        /\ u \in DOMAIN hbQueue[n] /\ u \in DOMAIN peers[n]
        /\ peers[n][u].status = "online"
        /\ peers[n][u].last_seen > hbQueue[n][u].last_seen


(* The handler of node n has just raised on a message that lacks a field.  *)
InvalidHandled(n) ==
    \E m \in DOMAIN net :
        /\ m.to = n /\ m.type = Invalid
        /\ net' = net (-) SetToBag({m})
        /\ \E kind \in InvalidKinds : logged' = <<Shown(n, kind, m.username)>>

BroadcastFailed(n, u) ==
    /\ ui[n] = "bcast" /\ u \in DOMAIN bcQueue[n]
    /\ u \notin DOMAIN bcQueue'[n]
    /\ logged' = <<SendError(n, u)>>

(* C34: a broadcast that failed to reach a peer removes the peer's entry   *)
(* only if the registry still holds the address and port it tried: an      *)
(* entry that was replaced while the send was under way is kept.           *)
C34_BroadcastRemovesOnlyTheRecordItTried ==
    [][\A n \in Nodes, u \in Names :
          (BroadcastFailed(n, u) /\ u \in DOMAIN peers[n] /\ u \notin DOMAIN peers'[n])
              => /\ peers[n][u].address = bcQueue[n][u].address
                 /\ peers[n][u].port = bcQueue[n][u].port]_vars


(* C35: when the monitor writes the result of a failed probe, the entry    *)
(* it marks has not been written since the probe's connect began: its      *)
(* last_seen is no newer than the one the registry held then.              *)
C35_OfflineOnlyIfNotRefreshedSinceProbe ==
    [][\A n \in Nodes, u \in Names :
          (FailedProbeWritten(n, u) /\ u \in DOMAIN peers'[n]
             /\ peers'[n][u].status = "offline")
              => peers'[n][u].last_seen <= hbCur[n].seen]_vars


(* C36: a peer whose recorded address and port accept the connect is       *)
(* neither set offline nor removed by the monitor or by a broadcast: the   *)
(* monitor's write after a connect that was accepted leaves the entry in   *)
(* the registry and online, and the broadcast's turn for an entry of the   *)
(* copy where something listens leaves the registry as it was.             *)
C36_AcceptingPeerStays ==
    [][\A n \in Nodes, u \in Names :
          /\ (ProbeWritten(n, u) /\ hbCur[n].result \in {"sent", "reset"}
                /\ u \in DOMAIN peers[n])
                => /\ u \in DOMAIN peers'[n]
                   /\ peers'[n][u].status = "online"
          /\ (BroadcastTurn(n, u)
                /\ Listener(bcQueue[n][u].address, bcQueue[n][u].port) # {})
                => peers'[n] = peers[n]]_vars
C36_Witness ==
    \E n \in Nodes, u \in Names :
        /\ budget.bcasts > 0 /\ budget.faults > 0
        /\ budget.cycles = 0 /\ budget.discs = 0 /\ budget.others = 0
        /\ ui[n] = "idle" /\ alive[n]
        /\ u # n /\ u \in DOMAIN peers[n]
        /\ Listener(peers[n][u].address, peers[n][u].port) # {}
        /\ net = EmptyBag


(* Peer u has stopped without a leave, nothing it sent is still on its way *)
(* to node n, by itself or as a reply on a connection n opened, and n has  *)
(* no probe of u to write that u accepted before it stopped.               *)
StoppedAndSilent(n, u) ==
    /\ ~alive[u] /\ u \in Started
    /\ jc[u].stage = "none"
    /\ \A m \in DOMAIN net : ~(m.to = n /\ m.username = u)
    /\ ~(jc[n].stage # "none" /\ jc[n].to = u)
    /\ ~(hbPc[n] = "write_ok" /\ hbCur[n].peer = u)

(* C37: once a running node holds a peer that has stopped without a leave  *)
(* as offline, and nothing the peer sent is still on its way, no step sets *)
(* the entry back to online.                                               *)
C37_StoppedPeerStaysOffline ==
    [][\A n \in Nodes, u \in Names :
          (/\ n # u /\ alive[n] /\ StoppedAndSilent(n, u)
           /\ u \in DOMAIN peers[n] /\ peers[n][u].status = "offline"
           /\ u \in DOMAIN peers'[n])
              => peers'[n][u].status = "offline"]_vars


-----------------------------------------------------------------------------
(* Properties of the framing.                                              *)

(* The i-th receive_message started where the i-th message starts: each    *)
(* receive before it returned a message.                                   *)
InStep(i) == \A j \in 1..(i - 1) : results[j].how = "ok"

(* The i-th receive_message got a whole prefix from its recv(4) and every  *)
(* byte its reads waited for.                                              *)
Delivered(i) == results[i].how \in {"ok", "too_large", "bad_json"}

(* C7 as stated: every receive that starts at a message's first byte and   *)
(* is given its bytes, however the body is split, returns that message.    *)
C7_RoundTrip ==
    \A i \in 1..Len(results) :
        (InStep(i) /\ Delivered(i)) => (i <= Len(sent) /\ results[i].val = sent[i])

(* C7 as the code has it: the same for the messages whose JSON text is at  *)
(* most 100 MiB, of which the receive reads every byte and no more.        *)
C7_RoundTripWithinLimit ==
    \A i \in 1..Len(results) :
        (InStep(i) /\ Delivered(i)) =>
            /\ i <= Len(sent)
            /\ EncodedLength(sent[i]) <= MaxMessage =>
                  /\ results[i].val = sent[i]
                  /\ results[i].received = EncodedLength(sent[i])

(* C7's case: two messages in a row were decoded, the second from a body   *)
(* that came in reads shorter than was asked for.                          *)
C7_Witness ==
    /\ Len(results) = 2 /\ Len(sent) = 2
    /\ results[1].how = "ok" /\ results[1].val = sent[1]
    /\ results[2].how = "ok" /\ results[2].val = sent[2] /\ results[2].split
    /\ results[2].declared < ChunkSize
    /\ sent[1] # sent[2]
    /\ wire = <<>>

(* C8: a declared length above 100 MiB gives None with no body byte read,  *)
(* and no body read is ever under way for one; a declared length up to     *)
(* 100 MiB is not refused, and its body is read in full when the stream    *)
(* delivers it.                                                            *)
C8_LimitGuardsBody ==
    /\ rpc = "body" => message_length <= MaxMessage
    /\ \A i \in 1..Len(results) :
          /\ results[i].declared > MaxMessage =>
                /\ results[i].val = None
                /\ results[i].received = 0 /\ ~results[i].split
          /\ (Delivered(i) /\ results[i].declared <= MaxMessage) =>
                /\ results[i].how # "too_large"
                /\ results[i].received = results[i].declared

(* C8's case: a body of exactly 100 MiB was read and decoded, and the next *)
(* prefix, one byte above, was refused.                                    *)
C8_Witness ==
    /\ Len(results) = 2
    /\ results[1].declared = MaxMessage /\ results[1].how = "ok"
    /\ results[1].received = MaxMessage
    /\ results[2].declared = MaxMessage + 1 /\ results[2].how = "too_large"

(* C12: a send_message call whose sendall failed raises to its caller, a   *)
(* call whose sendall wrote the packet does not, and no call tries sendall *)
(* more than once.                                                         *)
C12_SendFailureReported ==
    \A i \in 1..Len(calls) :
        /\ calls[i].raised <=> ~calls[i].wrote
        /\ calls[i].attempts = 1

(* The receive_message call returns in this step. *)
ReceiveReturns == Len(results') = Len(results) + 1

(* What the call that returns in this step gives its caller. *)
Returned == results'[Len(results')]

(* C26: receive_message gives "no message" (None), and never an error,     *)
(* when the first recv gives no byte, when it gives 1 to 3 bytes, when the *)
(* connection closes in the middle of the body, when a recv times out and  *)
(* when the body is not JSON; and whenever it returns, with a message or   *)
(* without one, the socket is back to no timeout.                          *)
C26_NoMessageWithoutErrorAndTimeoutReset ==
    [][ReceiveReturns =>
          /\ sock_timeout' = NoTimeout
          /\ rpc' = "idle"
          /\ Returned.how \in {"closed", "short_prefix", "timeout", "bad_json",
                               "too_large", "ok"}
          /\ (rpc = "prefix" /\ wire = <<>>) =>
                 /\ Returned.val = None
                 /\ Returned.how = IF wclosed THEN "closed" ELSE "timeout"
          /\ (rpc = "prefix" /\ RLen(wire) - RLen(wire') \in 1..(PrefixLen - 1)) =>
                 /\ Returned.val = None
                 /\ Returned.how = "short_prefix"
          /\ (rpc = "body" /\ wire = <<>>) =>
                 /\ Returned.val = None
                 /\ Returned.how = IF wclosed THEN "closed" ELSE "timeout"
          /\ Returned.how = "bad_json" => Returned.val = None
          /\ Returned.val # None <=> Returned.how = "ok"]_vars

(* A first call came back on a short prefix and a second one on a body cut *)
(* short or not JSON, and the socket is blocking again.                    *)
C26_Witness ==
    /\ Len(results) = 2
    /\ results[1].how = "short_prefix"
    /\ results[2].how \in {"closed", "bad_json"}
    /\ results[2].val = None
    /\ rpc = "idle"
    /\ sock_timeout = NoTimeout

-----------------------------------------------------------------------------
(* Properties of the rendezvous service.                                   *)

(* The steps of the service's handlers for client c's request, and the     *)
(* return of c's get_online_users from a reply.                            *)
RegisterHandled(c) ==
    rq[c].op = "register" /\ rq[c].stage = "sent" /\ rq'[c].stage = "replied"
QueryHandled(c) ==
    rq[c].op = "query" /\ rq[c].stage = "sent" /\ rq'[c].stage = "replied"
QueryReturned(c) ==
    rq[c].op = "query" /\ rq[c].reply = "online_users" /\ rq'[c] = NoRequest

UserTriple(u, address, port) == [username |-> u, address |-> address, port |-> port]

(* C9: a register that is answered with success has stored the user under *)
(* the announced address and port; the reply to a query holds exactly one  *)
(* triple, with the stored address and port, per stored user; and what     *)
(* get_online_users returns from it is that reply's triples of the other   *)
(* users, none of the caller.                                              *)
C9_QueryListsRegistered ==
    [][\A c \in Clients :
          /\ (RegisterHandled(c) /\ rq'[c].reply = "success") =>
                /\ c \in DOMAIN online_users'
                /\ online_users'[c].address = LocalIp(c)
                /\ online_users'[c].port = rq[c].port
          /\ QueryHandled(c) =>
                /\ \A u \in DOMAIN online_users :
                      TriplesOf(rq'[c].users, u) =
                          {UserTriple(u, online_users[u].address, online_users[u].port)}
                /\ \A t \in rq'[c].users : t.username \in DOMAIN online_users
          /\ QueryReturned(c) =>
                /\ answer'.client = c /\ answer'.op = "query"
                /\ TriplesOf(answer'.value, c) = {}
                /\ \A u \in Clients \ {c} :
                      TriplesOf(answer'.value, u) = TriplesOf(rq[c].users, u)]_vars

(* C9's case: bob, registered himself, has asked and got exactly alice's   *)
(* triple.                                                                 *)
C9_Witness ==
    /\ answer.client = "bob" /\ answer.op = "query" /\ answer.reply = "online_users"
    /\ answer.value = {UserTriple("alice", LocalIp("alice"), ListenPort["alice"])}
    /\ "bob" \in DOMAIN online_users

(* The steps of the sweep thread: the end of its sleep, and the sweep.     *)
SweepWakes == cleanupPc = "sleep" /\ cleanupPc' = "sweep"
SweepRuns == cleanupPc = "sweep" /\ cleanupPc' # "sweep"

(* C10: a sweep deletes every entry whose last_seen is more than 60 s      *)
(* before the sweep's reading of the clock and no other; a sweep reads the *)
(* clock at least 30 s after the one before it; a user that is not stored  *)
(* is in no reply to a query, and comes back only by a register.           *)
C10_SweepDeletesStale ==
    [][/\ SweepRuns =>
             \A u \in DOMAIN online_users :
                IF current_time - online_users[u].last_seen > StaleThreshold
                THEN u \notin DOMAIN online_users'
                ELSE u \in DOMAIN online_users' /\ online_users'[u] = online_users[u]
       /\ SweepWakes => current_time' - current_time >= SweepInterval
       /\ \A c \in Clients :
             /\ QueryHandled(c) => \A t \in rq'[c].users : t.username \in DOMAIN online_users
             /\ (c \notin DOMAIN online_users /\ c \in DOMAIN online_users') =>
                   RegisterHandled(c)]_vars

(* C10's case: a sweep has just removed alice, stale, and kept bob.        *)
C10_Witness ==
    /\ removed = {"alice"}
    /\ "alice" \notin DOMAIN online_users
    /\ "bob" \in DOMAIN online_users

(* The service reads a heartbeat of username u; it handles a register of u *)
(* that has both fields.                                                   *)
HeartbeatRead(u) ==
    /\ running
    /\ BagIn(RdvMsg("heartbeat", u), rnet)
    /\ rnet' = rnet (-) SetToBag({RdvMsg("heartbeat", u)})
RegisterStored(u) ==
    rq[u].op = "register" /\ rq[u].stage = "sent" /\ rq'[u].reply = "success"

(* C16: a heartbeat for a username that is not registered leaves the user  *)
(* map unchanged, and a username that is not in the map comes into it only *)
(* by a register.                                                          *)
C16_HeartbeatNeverRegisters ==
    [][\A u \in Clients :
          /\ (HeartbeatRead(u) /\ u \notin DOMAIN online_users)
                => online_users' = online_users
          /\ (u \notin DOMAIN online_users /\ u \in DOMAIN online_users')
                => RegisterStored(u)]_vars

(* C16's case: the service has just read a heartbeat of a client whose     *)
(* entry an unregister or a sweep had deleted, and the entry is not back.  *)
C16_Witness ==
    \E u \in Clients :
        /\ ignored = <<u>>
        /\ u \notin DOMAIN online_users
        /\ DOMAIN online_users # {}

(* The record a register stores is the announced address and port and the *)
(* service's reading of the clock.                                         *)
Upserted(c) ==
    online_users' = Put(online_users, rq[c].username,
                        [address |-> LocalIp(c), port |-> rq[c].port, last_seen |-> clock])
Refused(c) ==
    /\ rq'[c].reply = "failure" /\ rq'[c].reason # ""
    /\ online_users' = online_users

(* C17 as stated: a register that lacks username or port is answered with  *)
(* success false and a reason and changes no entry; one that holds both is *)
(* stored and answered with success true.                                  *)
C17_RegisterNeedsBothKeys ==
    [][\A c \in Clients : RegisterHandled(c) =>
          IF {"username", "port"} \subseteq rq[c].fields
          THEN Upserted(c) /\ rq'[c].reply = "success"
          ELSE Refused(c)]_vars

(* C17 as the code has it: a register that lacks username or port, or      *)
(* holds an empty username or the port 0, is answered with success false   *)
(* and a reason and changes no entry; any other is stored, in place of the *)
(* record the username had, and answered with success true.                *)
C17_RegisterNeedsTruthyKeys ==
    [][\A c \in Clients : RegisterHandled(c) =>
          IF /\ {"username", "port"} \subseteq rq[c].fields
             /\ rq[c].username # "" /\ rq[c].port # 0
          THEN Upserted(c) /\ rq'[c].reply = "success"
          ELSE Refused(c)]_vars

(* C17's case: a register that holds both keys, the port being 0, has been *)
(* refused, and the record an earlier register stored is still there.      *)
C17_Witness ==
    \E c \in Clients :
        /\ rq[c].op = "register" /\ rq[c].stage = "replied"
        /\ rq[c].fields = {"username", "port"} /\ rq[c].port = 0
        /\ rq[c].reply = "failure"
        /\ c \in DOMAIN online_users /\ online_users[c].last_seen > 0

(* The service reads an unregister that names username u. *)
UnregisterRead(u) ==
    /\ running
    /\ BagIn(RdvMsg("unregister", u), rnet)
    /\ rnet' = rnet (-) SetToBag({RdvMsg("unregister", u)})

(* C27: an entry leaves the user map only by an unregister that names its  *)
(* username or by a sweep that finds its last_seen more than 60 s before   *)
(* the sweep's reading of the clock; and a sweep deletes no entry whose    *)
(* last_seen is 60 s old or less when the sweep runs, whatever touched the *)
(* entry between the sweep's reading of the clock and its scan.            *)
C27_RemovedOnlyByUnregisterOrStaleSweep ==
    [][\A u \in DOMAIN online_users :
          /\ u \notin DOMAIN online_users' =>
                \/ UnregisterRead(u)
                \/ /\ SweepRuns
                   /\ current_time - online_users[u].last_seen > StaleThreshold
          /\ (SweepRuns /\ clock - online_users[u].last_seen <= StaleThreshold) =>
                /\ u \in DOMAIN online_users'
                /\ online_users'[u] = online_users[u]]_vars

(* A sweep has just removed alice and kept bob, whose entry a heartbeat or *)
(* a register wrote after the sweep had read the clock.                    *)
C27_Witness ==
    /\ removed = {"alice"}
    /\ "bob" \in DOMAIN online_users
    /\ online_users["bob"].last_seen > current_time

(* Client c's register() returns in this step, and the reply it got:       *)
(* "refused" when the connect failed, "none" when no reply came.           *)
RegisterEnds(c) == answer'.client = c /\ answer'.op = "register"
RegisterReply(c) == IF rq[c].op = "register" THEN rq[c].reply ELSE "refused"

C29_OneHeartbeatLoop ==
    \A c \in Clients : heartbeat_threads[c] <= 1

(* C39: a sweep keeps every entry that was seen no more than the           *)
(* heartbeat's 20 s before the sweep's reading of the clock, which is the  *)
(* case of a client whose heartbeats arrive; and a heartbeat of a client   *)
(* that is no longer in the user map leaves it out of the map, while the   *)
(* client's registered flag stays as it was.                               *)
C39_HeartbeatsKeepButDoNotRestore ==
    [][/\ SweepRuns =>
             \A c \in Clients :
                 (/\ c \in DOMAIN online_users
                  /\ current_time - online_users[c].last_seen <= HeartbeatEvery)
                     => c \in DOMAIN online_users' /\ c \notin removed'
       /\ \A c \in Clients :
             (HeartbeatRead(c) /\ c \notin DOMAIN online_users)
                 => /\ c \notin DOMAIN online_users'
                    /\ registered'[c] = registered[c]]_vars
C39_Witness ==
    \E c \in Clients :
        /\ ignored = <<c>>
        /\ registered[c] /\ hb_running[c]
        /\ c \notin DOMAIN online_users
        /\ cleanupPc = "sleep" /\ sleep_until > SweepInterval

(* Properties of the locks. *)

(* C25: no thread is at a network call (connect, send, receive) while it   *)
(* holds the lock of its registry or user map: whenever the statement a    *)
(* thread runs next is a network call, the lock is free or another         *)
(* thread's.                                                               *)
C25_NoNetworkCallUnderLock ==
    \A t \in Threads : Current(t).op \in NetworkOps => lock[LockOf(t)] # t

(* A thread that has copied the map and left the with-block is at its      *)
(* network call while another thread of the same node holds the lock.      *)
C25_Witness ==
    \E t, u \in Threads :
        /\ t # u
        /\ LockOf(t) = LockOf(u)
        /\ Current(t).op \in NetworkOps
        /\ at[t] > 3
        /\ lock[LockOf(t)] = u


(* C33: no thread waits for a lock it holds itself: a thread about to      *)
(* enter a with-block on a lock is never that lock's holder.               *)
C33_NoThreadWaitsForItsOwnLock ==
    \A t \in Threads :
        Current(t).op = "acquire" => lock[LockOf(t)] # t

-----------------------------------------------------------------------------
(* Properties of the file transfer.                                        *)

(* C40: whatever the order in which the receiver's threads handle the      *)
(* chunks, a file it saves holds the chunks of the file that was sent, in  *)
(* order, and once every chunk has been handled the transfer's entry is    *)
(* gone and the file has been saved once.                                  *)
C40_FileSavedWholeAndEntryRemoved ==
    /\ \A k \in 1..Len(saved_files) : saved_files[k] = file_data
    /\ (fpc = "sent" /\ \A i \in 1..send_pos : chunk_threads[i] \in {"done", "failed"})
          => /\ incoming_transfers = EmptyDict
             /\ saved_files = <<file_data>>

====
